---------------------------- MODULE Spec2Model ----------------------------
(***************************************************************************)
(* IC++ pricing breakdown calculator (icpp_calculator.py).                 *)
(*                                                                         *)
(* Text values (cell texts, header names, CSV fields, reasons, card types)  *)
(* are sequences of one-character strings, so that upper-casing, substring *)
(* search and number parsing are computed character by character.  Keys    *)
(* that the program writes as literals and never computes (CSV column      *)
(* names, fee-record and bucket keys, region codes) are TLA+ strings.      *)
(* Amounts are exact integers (cents).                                     *)
(***************************************************************************)
EXTENDS Integers, Sequences, FiniteSets, TLC

VARIABLES book, csv, pc, transactions, fee_data, idx, stats,
          skipped_count, skipped_reasons, output, call, ret

vars == <<book, csv, pc, transactions, fee_data, idx, stats,
          skipped_count, skipped_reasons, output, call, ret>>

-----------------------------------------------------------------------------
(* Bounds of the model *)

\* number of data rows of a worksheet (rows after the title and the header)
MaxRows == 2
\* number of rows of a fee CSV loaded row by row
MaxFeeRows == 2
\* largest amount of a fee record handed to calculate_icpp directly
MaxAmt == 2

-----------------------------------------------------------------------------
(* Python values *)

\* Python's None: no text is a one-element sequence holding a longer string
None == <<"None">>

\* Python truthiness of an optional text: None and '' are false
Truthy(v) == v # None /\ v # <<>>

\* x or y
PyOr(x, y) == IF Truthy(x) THEN x ELSE y

\* d.get(k, default)
Get(d, k, default) == IF k \in DOMAIN d THEN d[k] ELSE default

\* d.get(k)
GetOpt(d, k) == Get(d, k, None)

Abs(n) == IF n < 0 THEN -n ELSE n

LowerLetters ==
  <<"a", "b", "c", "d", "e", "f", "g", "h", "i", "j", "k", "l", "m",
    "n", "o", "p", "q", "r", "s", "t", "u", "v", "w", "x", "y", "z">>

UpperLetters ==
  <<"A", "B", "C", "D", "E", "F", "G", "H", "I", "J", "K", "L", "M",
    "N", "O", "P", "Q", "R", "S", "T", "U", "V", "W", "X", "Y", "Z">>

Digits == <<"0", "1", "2", "3", "4", "5", "6", "7", "8", "9">>

\* the position of c in the sequence tbl, 0 when it is not there
IndexIn(tbl, c) ==
  IF \E i \in DOMAIN tbl : tbl[i] = c
    THEN CHOOSE i \in DOMAIN tbl : tbl[i] = c
    ELSE 0

\* str.isalpha on one character
IsAlpha(c) == IndexIn(LowerLetters, c) > 0 \/ IndexIn(UpperLetters, c) > 0

\* str.upper on one character
UpperChar(c) ==
  IF IndexIn(LowerLetters, c) > 0 THEN UpperLetters[IndexIn(LowerLetters, c)] ELSE c

\* str.upper
Upper(s) == [i \in DOMAIN s |-> UpperChar(s[i])]

\* sub in s
Contains(s, sub) ==
  \E k \in 0..(Len(s) - Len(sub)) :
    \A j \in 1..Len(sub) : s[k + j] = sub[j]

\* ''.join(filter(pred, s)) for pred = str.isalpha
RECURSIVE FilterAlpha(_)
FilterAlpha(s) ==
  IF s = <<>> THEN <<>>
  ELSE IF IsAlpha(Head(s)) THEN <<Head(s)>> \o FilterAlpha(Tail(s))
  ELSE FilterAlpha(Tail(s))

\* str.strip of blanks, as float() and int() do before they parse
RECURSIVE LStrip(_)
LStrip(s) == IF s # <<>> /\ Head(s) = " " THEN LStrip(Tail(s)) ELSE s

RECURSIVE RStrip(_)
RStrip(s) ==
  IF s # <<>> /\ s[Len(s)] = " " THEN RStrip(SubSeq(s, 1, Len(s) - 1)) ELSE s

Strip(s) == LStrip(RStrip(s))

\* the text after an optional sign
Unsigned(s) == IF s # <<>> /\ Head(s) \in {"-", "+"} THEN Tail(s) ELSE s

\* float(s) and int(s) succeed: blanks, an optional sign, one or more digits
\* (the texts of the model carry no fraction, exponent, inf or nan)
IsNumeral(s) ==
  /\ s # None
  /\ LET u == Unsigned(Strip(s))
     IN  u # <<>> /\ \A i \in DOMAIN u : IndexIn(Digits, u[i]) > 0

RECURSIVE DigitsValue(_)
DigitsValue(u) ==
  IF u = <<>> THEN 0
  ELSE 10 * DigitsValue(SubSeq(u, 1, Len(u) - 1)) + (IndexIn(Digits, u[Len(u)]) - 1)

\* the value float(s) or int(s) returns for a text that parses
NumeralValue(s) ==
  LET t == Strip(s)
  IN  IF t # <<>> /\ Head(t) = "-" THEN -DigitsValue(Unsigned(t))
      ELSE DigitsValue(Unsigned(t))

-----------------------------------------------------------------------------
(* ExcelReader *)

\* ExcelReader._col_letter_to_num: base 26 with A..Z = 1..26, then minus one
RECURSIVE ColLetterValue(_)
ColLetterValue(col_letter) ==
  IF col_letter = <<>> THEN 0
  ELSE ColLetterValue(SubSeq(col_letter, 1, Len(col_letter) - 1)) * 26
         + IndexIn(UpperLetters, UpperChar(col_letter[Len(col_letter)]))

\* a plausible slip: the letters are read as the digits 0..25
RECURSIVE col_letter_to_num_digits_from_zero(_)
col_letter_to_num_digits_from_zero(col_letter) ==
  IF col_letter = <<>> THEN 0
  ELSE col_letter_to_num_digits_from_zero(SubSeq(col_letter, 1, Len(col_letter) - 1)) * 26
         + IndexIn(UpperLetters, UpperChar(col_letter[Len(col_letter)])) - 1

col_letter_to_num(col_letter) == ColLetterValue(col_letter) - 1

\* ExcelReader._load_shared_strings: one text per <si>, that of its first
\* nested <t> ('' when there is none or it is empty); no part, no strings
SiText(si) == IF si # <<>> /\ Truthy(si[1]) THEN si[1] ELSE <<>>

load_shared_strings(part) ==
  IF part.kind = "absent" THEN <<>>
  ELSE [i \in DOMAIN part.items |-> SiText(part.items[i])]

\* a plausible slip: the index is only tested against the length, so that a
\* negative index counts from the end of the list
parse_cell_value_from_end(cell, shared_strings) ==
  IF cell.v = None THEN <<>>
  ELSE IF cell.t = "s"
    THEN LET i == NumeralValue(cell.v)
         IN  IF 0 <= i /\ i < Len(shared_strings) THEN shared_strings[i + 1]
             ELSE IF i < 0 /\ -i <= Len(shared_strings)
               THEN shared_strings[Len(shared_strings) + i + 1]
             ELSE <<>>
  ELSE cell.v

\* ExcelReader._parse_cell_value
parse_cell_value(cell, shared_strings) ==
  IF cell.v = None THEN <<>>
  ELSE IF cell.t = "s"
    THEN LET i == NumeralValue(cell.v)
         IN  IF 0 <= i /\ i < Len(shared_strings) THEN shared_strings[i + 1] ELSE <<>>
  ELSE cell.v

\* the column index of a cell, from the letters of its reference
CellCol(cell) == col_letter_to_num(FilterAlpha(cell.r))

\* d[k] = v on a dictionary
DictSet(d, k, v) == [x \in DOMAIN d \cup {k} |-> IF x = k THEN v ELSE d[x]]

EmptyDict == [x \in {} |-> 0]

\* values_dict of ExcelReader._parse_row after the cells of the row, in
\* document order: column number -> value, a later cell of a column winning
RECURSIVE ValuesDict(_, _)
ValuesDict(row, shared_strings) ==
  IF row = <<>> THEN EmptyDict
  ELSE DictSet(ValuesDict(SubSeq(row, 1, Len(row) - 1), shared_strings),
               CellCol(row[Len(row)]),
               parse_cell_value(row[Len(row)], shared_strings))

\* the list of the values of columns 0..max, '' where the row has no cell
DenseRow(values_dict) ==
  LET cols    == DOMAIN values_dict
      max_col == IF cols = {} THEN 0 ELSE CHOOSE m \in cols : \A c \in cols : c <= m
  IN  [n \in 1..(max_col + 1) |-> Get(values_dict, n - 1, <<>>)]

\* ExcelReader._parse_row
parse_row(row, shared_strings) == DenseRow(ValuesDict(row, shared_strings))

\* the transaction dictionary after the first n values of a data row:
\* transaction[headers[i]] = value for every i < len(headers), in order
RECURSIVE ZipHeaders(_, _, _)
ZipHeaders(headers, row_data, n) ==
  IF n = 0 THEN EmptyDict
  ELSE DictSet(ZipHeaders(headers, row_data, n - 1), headers[n], row_data[n])

\* the transaction dictionary of one data row
MakeTransaction(headers, row_data) ==
  ZipHeaders(headers, row_data,
             IF Len(headers) < Len(row_data) THEN Len(headers) ELSE Len(row_data))

H_GatewayUUID      == <<"G", "a", "t", "e", "w", "a", "y", " ", "U", "U", "I", "D">>
H_TransactionID    == <<"T", "r", "a", "n", "s", "a", "c", "t", "i", "o", "n", " ", "I", "D">>
H_GatewayReference == <<"G", "a", "t", "e", "w", "a", "y", " ", "R", "e", "f", "e", "r", "e", "n", "c", "e">>
H_Merchant         == <<"M", "e", "r", "c", "h", "a", "n", "t">>
H_Amount           == <<"A", "m", "o", "u", "n", "t">>
H_Currency         == <<"C", "u", "r", "r", "e", "n", "c", "y">>
H_CardType         == <<"C", "a", "r", "d", " ", "T", "y", "p", "e">>
H_PaymentType      == <<"P", "a", "y", "m", "e", "n", "t", " ", "T", "y", "p", "e">>
H_ProcessorStatus  == <<"P", "r", "o", "c", "e", "s", "s", "o", "r", " ", "S", "t", "a", "t", "u", "s">>
H_CardCountry      == <<"C", "a", "r", "d", " ", "C", "o", "u", "n", "t", "r", "y">>

\* a plausible slip: a Gateway Reference keeps the row as well
HasTransactionId_or_reference(transaction) ==
  \/ Truthy(GetOpt(transaction, H_GatewayUUID))
  \/ Truthy(GetOpt(transaction, H_TransactionID))
  \/ Truthy(GetOpt(transaction, H_GatewayReference))

\* the row is kept: it has a Gateway UUID or a Transaction ID
HasTransactionId(transaction) ==
  Truthy(GetOpt(transaction, H_GatewayUUID)) \/ Truthy(GetOpt(transaction, H_TransactionID))

RECURSIVE KeptTransactions(_, _)
\* the transactions of the data rows that are kept, in row order
KeptTransactions(headers, rows_data) ==
  IF rows_data = <<>> THEN <<>>
  ELSE LET transaction == MakeTransaction(headers, Head(rows_data))
       IN  (IF HasTransactionId(transaction) THEN <<transaction>> ELSE <<>>)
             \o KeptTransactions(headers, Tail(rows_data))

\* ExcelReader._load_worksheet: nothing below 3 rows; row 2 is the header row
load_worksheet(rows, shared_strings) ==
  IF Len(rows) < 3 THEN <<>>
  ELSE LET headers == parse_row(rows[2], shared_strings)
       IN  KeptTransactions(headers,
                      [k \in 1..(Len(rows) - 2) |-> parse_row(rows[k + 2], shared_strings)])

\* a plausible slip: the cells are parsed before the rows are counted
BadIndexCell_any_sheet(rows) ==
  \E k \in DOMAIN rows : \E c \in DOMAIN rows[k] :
    rows[k][c].t = "s" /\ rows[k][c].v # None /\ ~IsNumeral(rows[k][c].v)

\* int(val_elem.text) raises on the text of some shared-string cell that is parsed
BadIndexCell(rows) ==
  /\ Len(rows) >= 3
  /\ \E k \in 2..Len(rows) : \E c \in DOMAIN rows[k] :
       rows[k][c].t = "s" /\ rows[k][c].v # None /\ ~IsNumeral(rows[k][c].v)

\* a plausible slip: a missing worksheet part is tolerated like a missing
\* shared-string part
ReadRaises_sheet_optional(b) ==
  \/ b.archive # "ok"
  \/ b.shared.kind = "malformed"
  \/ b.sheet.kind = "malformed"
  \/ BadIndexCell(b.sheet.rows)

\* ExcelReader.read raises: the archive cannot be opened, a part is not XML,
\* the worksheet part is missing, or a shared-string index is no integer
ReadRaises(b) ==
  \/ b.archive # "ok"
  \/ b.shared.kind = "malformed"
  \/ b.sheet.kind # "xml"
  \/ BadIndexCell(b.sheet.rows)

\* ExcelReader.read, when it returns
read(b) == load_worksheet(b.sheet.rows, load_shared_strings(b.shared))

-----------------------------------------------------------------------------
(* FeeDataLoader *)

\* the amount keys of a fee record, each with the CSV column it is read from
AmountColumns ==
  <<<<"mdr_amount", "MDR Amount">>,
    <<"interchange_amount", "Interchange Amount">>,
    <<"scheme_fee_amount", "Scheme Fee Bucket Amount">>,
    <<"gateway_fee_amount", "Gateway Fee Amount">>,
    <<"authorization_amount", "Authorization Amount">>,
    <<"clearing_amount", "Clearing Amount">>,
    <<"cross_border_amount", "Cross Border Amount">>,
    <<"cross_currency_amount", "Cross Currency Amount">>,
    <<"preauthorization_amount", "Preauthorization Amount">>,
    <<"three_ds_amount", "Three Ds Amount">>,
    <<"non_three_ds_amount", "Non Three Ds Amount">>,
    <<"vat_amount", "VAT Amount">>,
    <<"wht_amount", "WHT Amount">>,
    <<"grt_amount", "GRT Amount">>,
    <<"st_amount", "ST Amount">>>>

\* the currency keys of a fee record, each with its CSV column
CurrencyColumns ==
  <<<<"mdr_currency", "MDR Currency">>,
    <<"interchange_currency", "Interchange Currency">>,
    <<"scheme_fee_currency", "Scheme Fee Bucket Currency">>,
    <<"gateway_fee_currency", "Gateway Fee Currency">>,
    <<"authorization_currency", "Authorization Currency">>,
    <<"clearing_currency", "Clearing Currency">>,
    <<"cross_border_currency", "Cross Border Currency">>,
    <<"cross_currency_currency", "Cross Currency Currency">>,
    <<"preauthorization_currency", "Preauthorization Currency">>,
    <<"three_ds_currency", "Three Ds Currency">>,
    <<"non_three_ds_currency", "Non Three Ds Currency">>,
    <<"vat_currency", "VAT Currency">>,
    <<"wht_currency", "WHT Currency">>,
    <<"grt_currency", "GRT Currency">>,
    <<"st_currency", "ST Currency">>>>

AmountKeys   == {AmountColumns[i][1] : i \in DOMAIN AmountColumns}
CurrencyKeys == {CurrencyColumns[i][1] : i \in DOMAIN CurrencyColumns}

\* the CSV column a fee-record key is read from
ColumnOf(key) ==
  LET all == AmountColumns \o CurrencyColumns
  IN  all[CHOOSE i \in DOMAIN all : all[i][1] = key][2]

\* a plausible slip: the text is tested with str.isdigit instead of parsed
parse_float_isdigit(value) ==
  IF Truthy(value) /\ (\A i \in DOMAIN value : IndexIn(Digits, value[i]) > 0)
    THEN DigitsValue(value)
    ELSE 0

\* FeeDataLoader._parse_float: 0 for None, '' and any text float() rejects
parse_float(value) ==
  IF ~Truthy(value) THEN 0
  ELSE IF IsNumeral(value) THEN NumeralValue(value)
  ELSE 0

\* a plausible slip: the Gateway UUID column is tried first
FeeRowId_uuid_first(row) ==
  PyOr(GetOpt(row, "Gateway UUID"),
       PyOr(GetOpt(row, "NP Transaction ID"),
            PyOr(GetOpt(row, "Transaction ID"), GetOpt(row, "Gateway Reference"))))

\* the identifier of a CSV row: the first truthy of the four columns, else
\* the value of the last one (None or '')
FeeRowId(row) ==
  PyOr(GetOpt(row, "NP Transaction ID"),
       PyOr(GetOpt(row, "Transaction ID"),
            PyOr(GetOpt(row, "Gateway Reference"), GetOpt(row, "Gateway UUID"))))

\* the record FeeDataLoader.load stores for a CSV row
FeeRecord(row) ==
  [key \in AmountKeys \cup CurrencyKeys |->
     IF key \in AmountKeys THEN parse_float(Get(row, ColumnOf(key), <<>>))
     ELSE Get(row, ColumnOf(key), <<>>)]

\* a plausible slip: a row whose identifier is already stored is ignored
LoadRow_keep_first(fd, row) ==
  IF ~Truthy(FeeRowId(row)) \/ FeeRowId(row) \in DOMAIN fd THEN fd
  ELSE DictSet(fd, FeeRowId(row), FeeRecord(row))

\* one iteration of the loop of FeeDataLoader.load
LoadRow(fd, row) ==
  IF ~Truthy(FeeRowId(row)) THEN fd
  ELSE DictSet(fd, FeeRowId(row), FeeRecord(row))

\* FeeDataLoader.load over the rows of the file, from an empty dictionary
RECURSIVE LoadRows(_, _)
LoadRows(fd, rows) ==
  IF rows = <<>> THEN fd ELSE LoadRows(LoadRow(fd, Head(rows)), Tail(rows))

load(file) == LoadRows(EmptyDict, file.rows)

\* FeeDataLoader.load raises: the file cannot be opened or decoded
LoadRaises(file) == file.kind # "ok"

-----------------------------------------------------------------------------
(* Region identifier *)

\* REGION_MAPPING, in declaration order
REGION_MAPPING ==
  <<<<(<<"H", "o", "n", "g", " ", "K", "o", "n", "g">>), "HK">>,
    <<(<<"M", "a", "l", "a", "y", "s", "i", "a">>), "MY">>,
    <<(<<"T", "h", "a", "i", "l", "a", "n", "d">>), "TH">>>>

\* a plausible slip: the mapping is scanned from its last keyword
identify_region_last_keyword(merchant, card_country) ==
  LET m    == IF ~Truthy(merchant) THEN <<>> ELSE merchant
      hits == {i \in DOMAIN REGION_MAPPING : Contains(m, REGION_MAPPING[i][1])}
  IN  IF hits # {}
        THEN REGION_MAPPING[CHOOSE i \in hits : \A j \in hits : j <= i][2]
      ELSE IF Truthy(card_country) /\ card_country \in {<<"H", "K", "G">>, <<"H", "K">>}
        THEN "HK"
      ELSE IF Truthy(card_country) /\ card_country \in {<<"M", "Y", "S">>, <<"M", "Y">>}
        THEN "MY"
      ELSE IF Truthy(card_country) /\ card_country \in {<<"T", "H", "A">>, <<"T", "H">>}
        THEN "TH"
      ELSE "UNKNOWN"

\* identify_region
identify_region(merchant, card_country) ==
  LET m    == IF ~Truthy(merchant) THEN <<>> ELSE merchant
      hits == {i \in DOMAIN REGION_MAPPING : Contains(m, REGION_MAPPING[i][1])}
  IN  IF hits # {}
        THEN REGION_MAPPING[CHOOSE i \in hits : \A j \in hits : i <= j][2]
      ELSE IF Truthy(card_country) /\ card_country \in {<<"H", "K", "G">>, <<"H", "K">>}
        THEN "HK"
      ELSE IF Truthy(card_country) /\ card_country \in {<<"M", "Y", "S">>, <<"M", "Y">>}
        THEN "MY"
      ELSE IF Truthy(card_country) /\ card_country \in {<<"T", "H", "A">>, <<"T", "H">>}
        THEN "TH"
      ELSE "UNKNOWN"

-----------------------------------------------------------------------------
(* IC++ calculator *)

\* the keys of second_plus_details that are copied from the fee record, each
\* with the fee-record key it is copied from
DetailSource ==
  <<<<"gateway_fee", "gateway_fee_amount">>,
    <<"authorization_fee", "authorization_amount">>,
    <<"clearing_fee", "clearing_amount">>,
    <<"cross_border_fee", "cross_border_amount">>,
    <<"cross_currency_fee", "cross_currency_amount">>,
    <<"preauth_fee", "preauthorization_amount">>,
    <<"three_ds_fee", "three_ds_amount">>,
    <<"non_three_ds_fee", "non_three_ds_amount">>,
    <<"vat", "vat_amount">>,
    <<"wht", "wht_amount">>,
    <<"grt", "grt_amount">>,
    <<"st", "st_amount">>>>

DetailKeys == {DetailSource[i][1] : i \in DOMAIN DetailSource}

SourceOf(detail) == DetailSource[CHOOSE i \in DOMAIN DetailSource : DetailSource[i][1] = detail][2]

RECURSIVE SumOver(_, _)
\* the sum of f over the keys ks
SumOver(f, ks) ==
  IF ks = {} THEN 0
  ELSE LET k == CHOOSE x \in ks : TRUE IN f[k] + SumOver(f, ks \ {k})

\* a plausible slip: the MY waiver is left out
SchemeFee_no_waiver(fees, region) == Get(fees, "scheme_fee_amount", 0)

\* the scheme fee calculate_icpp uses: none in the MY region
SchemeFee(fees, region) ==
  IF region = "MY" THEN 0 ELSE Get(fees, "scheme_fee_amount", 0)

\* a plausible slip: the gateway fee is not read from the fee record
Components_no_gateway(fees) ==
  [d \in DetailKeys |-> IF d = "gateway_fee" THEN 0 ELSE Get(fees, SourceOf(d), 0)]

\* gateway_fee, ..., st as read from the fee record
Components(fees) == [d \in DetailKeys |-> Get(fees, SourceOf(d), 0)]

\* a plausible slip: a negative markup is clamped to 0
NetMarkup_clamped(second_plus_total, known_components) ==
  IF second_plus_total - known_components < 0 THEN 0
  ELSE second_plus_total - known_components

\* what is left of the 2nd plus after all known fees
NetMarkup(second_plus_total, known_components) == second_plus_total - known_components

\* calculate_icpp
calculate_icpp(transaction, fees, region) ==
  LET mdr               == Get(fees, "mdr_amount", 0)
      interchange       == Get(fees, "interchange_amount", 0)
      scheme_fee        == SchemeFee(fees, region)
      components        == Components(fees)
      second_plus_total == mdr - interchange - scheme_fee
      known_components  == SumOver(components, DetailKeys)
      net_acquirer_markup == NetMarkup(second_plus_total, known_components)
  IN  [ic |-> interchange,
       first_plus |-> scheme_fee,
       second_plus |-> second_plus_total,
       mdr |-> mdr,
       second_plus_details |->
         components @@ [x \in {"net_acquirer_markup"} |-> net_acquirer_markup]]

-----------------------------------------------------------------------------
(* Transaction filter *)

R_Refund  == <<"R", "e", "f", "u", "n", "d", " ", "t", "r", "a", "n", "s", "a", "c", "t", "i", "o", "n">>
R_Zero    == <<"Z", "e", "r", "o", " ", "a", "m", "o", "u", "n", "t">>
R_Invalid == <<"I", "n", "v", "a", "l", "i", "d", " ", "a", "m", "o", "u", "n", "t">>
R_Status  == <<"S", "t", "a", "t", "u", "s", ":", " ">>
R_Missing == <<"M", "i", "s", "s", "i", "n", "g", " ", "f", "e", "e", " ", "d", "a", "t", "a">>
R_ZeroMDR == <<"Z", "e", "r", "o", " ", "M", "D", "R">>

\* a plausible slip: the payment type is compared, not searched
IsRefund_exact(payment_type) ==
  payment_type = <<"R", "E", "F", "U", "N", "D">> \/ payment_type = <<"R", "F">>

\* the payment type is a refund
IsRefund(payment_type) ==
  Contains(payment_type, <<"R", "E", "F", "U", "N", "D">>) \/ payment_type = <<"R", "F">>

\* the processor status rejects the transaction
IsRejectedStatus(status) ==
  status \in {<<"D", "E", "C", "L", "I", "N", "E", "D">>,
              <<"F", "A", "I", "L", "E", "D">>,
              <<"E", "R", "R", "O", "R">>}

\* a plausible slip: the processor status is checked before the amount
is_valid_transaction_status_first(transaction) ==
  LET payment_type == Upper(Get(transaction, H_PaymentType, <<>>))
      amount_str   == Get(transaction, H_Amount, <<"0">>)
      status       == Upper(Get(transaction, H_ProcessorStatus, <<>>))
  IN  IF IsRefund(payment_type) THEN <<FALSE, R_Refund>>
      ELSE IF IsRejectedStatus(status) THEN <<FALSE, R_Status \o status>>
      ELSE IF ~IsNumeral(amount_str) THEN <<FALSE, R_Invalid>>
      ELSE IF NumeralValue(amount_str) = 0 THEN <<FALSE, R_Zero>>
      ELSE <<TRUE, <<>>>>

\* is_valid_transaction: <<is_valid, reason_if_invalid>>
is_valid_transaction(transaction) ==
  LET payment_type == Upper(Get(transaction, H_PaymentType, <<>>))
      amount_str   == Get(transaction, H_Amount, <<"0">>)
      status       == Upper(Get(transaction, H_ProcessorStatus, <<>>))
  IN  IF IsRefund(payment_type) THEN <<FALSE, R_Refund>>
      ELSE IF ~IsNumeral(amount_str) THEN <<FALSE, R_Invalid>>
      ELSE IF NumeralValue(amount_str) = 0 THEN <<FALSE, R_Zero>>
      ELSE IF IsRejectedStatus(status) THEN <<FALSE, R_Status \o status>>
      ELSE <<TRUE, <<>>>>

-----------------------------------------------------------------------------
(* StatisticsAggregator *)

\* the running totals of a bucket that are fed from second_plus_details, each
\* with the detail it accumulates
DetailTotals ==
  <<<<"total_gateway_fee", "gateway_fee">>,
    <<"total_authorization_fee", "authorization_fee">>,
    <<"total_clearing_fee", "clearing_fee">>,
    <<"total_cross_border_fee", "cross_border_fee">>,
    <<"total_cross_currency_fee", "cross_currency_fee">>,
    <<"total_preauth_fee", "preauth_fee">>,
    <<"total_three_ds_fee", "three_ds_fee">>,
    <<"total_non_three_ds_fee", "non_three_ds_fee">>,
    <<"total_vat", "vat">>,
    <<"total_wht", "wht">>,
    <<"total_grt", "grt">>,
    <<"total_st", "st">>,
    <<"total_net_acquirer_markup", "net_acquirer_markup">>>>

DetailTotalKeys == {DetailTotals[i][1] : i \in DOMAIN DetailTotals}

\* a plausible slip: total_wht accumulates the VAT of the breakdown
DetailOf_wht_from_vat(total) ==
  IF total = "total_wht" THEN "vat"
  ELSE DetailTotals[CHOOSE i \in DOMAIN DetailTotals : DetailTotals[i][1] = total][2]

\* the detail of the breakdown a detail total accumulates
DetailOf(total) == DetailTotals[CHOOSE i \in DOMAIN DetailTotals : DetailTotals[i][1] = total][2]

PrimaryTotalKeys == {"total_ic", "total_first_plus", "total_second_plus", "total_mdr"}

\* the icpp field a primary total accumulates
PrimaryOf(total) ==
  CASE total = "total_ic" -> "ic"
    [] total = "total_first_plus" -> "first_plus"
    [] total = "total_second_plus" -> "second_plus"
    [] total = "total_mdr" -> "mdr"

\* a plausible slip: a new bucket starts with a count of 1
NewBucket_counted ==
  [k \in {"count", "total_volume", "currency", "transactions"}
           \cup PrimaryTotalKeys \cup DetailTotalKeys |->
     CASE k = "currency" -> <<>>
       [] k = "transactions" -> <<>>
       [] k = "count" -> 1
       [] OTHER -> 0]

\* the bucket the default factory of StatisticsAggregator.__init__ builds
NewBucket ==
  [k \in {"count", "total_volume", "currency", "transactions"}
           \cup PrimaryTotalKeys \cup DetailTotalKeys |->
     CASE k = "currency" -> <<>>
       [] k = "transactions" -> <<>>
       [] OTHER -> 0]

S_UNKNOWN == <<"U", "N", "K", "N", "O", "W", "N">>
S_NA      == <<"N", "/", "A">>

\* the card type add_transaction groups by
CardTypeOf(transaction) == Upper(Get(transaction, H_CardType, S_UNKNOWN))

\* a plausible slip: the bucket is built anew at every call
BucketOf_fresh(st, region, card_type) == NewBucket

\* self.stats[region][card_type], created on first use
BucketOf(st, region, card_type) ==
  IF region \in DOMAIN st /\ card_type \in DOMAIN st[region]
    THEN st[region][card_type]
    ELSE NewBucket

\* a plausible slip: the volume of the bucket is assigned, not added to
Accumulate_assign_volume(bucket, transaction, icpp) ==
  LET amount == NumeralValue(Get(transaction, H_Amount, <<"0">>))
  IN  [k \in DOMAIN bucket |->
         CASE k = "count" -> bucket[k] + 1
           [] k = "total_volume" -> amount
           [] k = "currency" -> Get(transaction, H_Currency, <<>>)
           [] k = "transactions" ->
                Append(bucket[k], [id |-> Get(transaction, H_GatewayUUID, S_NA),
                                   amount |-> amount,
                                   icpp |-> icpp])
           [] k \in PrimaryTotalKeys -> bucket[k] + icpp[PrimaryOf(k)]
           [] k \in DetailTotalKeys -> bucket[k] + icpp.second_plus_details[DetailOf(k)]
           [] OTHER -> bucket[k]]

\* a plausible slip: the MDR total of the bucket is assigned, not added to
Accumulate_assign_mdr(bucket, transaction, icpp) ==
  LET amount == NumeralValue(Get(transaction, H_Amount, <<"0">>))
  IN  [k \in DOMAIN bucket |->
         CASE k = "count" -> bucket[k] + 1
           [] k = "total_volume" -> bucket[k] + amount
           [] k = "currency" -> Get(transaction, H_Currency, <<>>)
           [] k = "transactions" ->
                Append(bucket[k], [id |-> Get(transaction, H_GatewayUUID, S_NA),
                                   amount |-> amount,
                                   icpp |-> icpp])
           [] k = "total_mdr" -> icpp[PrimaryOf(k)]
           [] k \in PrimaryTotalKeys -> bucket[k] + icpp[PrimaryOf(k)]
           [] k \in DetailTotalKeys -> bucket[k] + icpp.second_plus_details[DetailOf(k)]
           [] OTHER -> bucket[k]]

\* a plausible slip: the reference is put at the front of the list
Accumulate_prepend(bucket, transaction, icpp) ==
  LET amount == NumeralValue(Get(transaction, H_Amount, <<"0">>))
  IN  [k \in DOMAIN bucket |->
         CASE k = "count" -> bucket[k] + 1
           [] k = "total_volume" -> bucket[k] + amount
           [] k = "currency" -> Get(transaction, H_Currency, <<>>)
           [] k = "transactions" ->
                <<[id |-> Get(transaction, H_GatewayUUID, S_NA),
                   amount |-> amount,
                   icpp |-> icpp]>> \o bucket[k]
           [] k \in PrimaryTotalKeys -> bucket[k] + icpp[PrimaryOf(k)]
           [] k \in DetailTotalKeys -> bucket[k] + icpp.second_plus_details[DetailOf(k)]
           [] OTHER -> bucket[k]]

\* a plausible slip: the currency of the bucket is set by its first transaction only
Accumulate_keep_currency(bucket, transaction, icpp) ==
  LET amount == NumeralValue(Get(transaction, H_Amount, <<"0">>))
  IN  [k \in DOMAIN bucket |->
         CASE k = "count" -> bucket[k] + 1
           [] k = "total_volume" -> bucket[k] + amount
           [] k = "currency" -> IF bucket[k] = <<>> THEN Get(transaction, H_Currency, <<>>)
                                                   ELSE bucket[k]
           [] k = "transactions" ->
                Append(bucket[k], [id |-> Get(transaction, H_GatewayUUID, S_NA),
                                   amount |-> amount,
                                   icpp |-> icpp])
           [] k \in PrimaryTotalKeys -> bucket[k] + icpp[PrimaryOf(k)]
           [] k \in DetailTotalKeys -> bucket[k] + icpp.second_plus_details[DetailOf(k)]
           [] OTHER -> bucket[k]]

\* the bucket after one transaction is accumulated into it
Accumulate(bucket, transaction, icpp) ==
  LET amount == NumeralValue(Get(transaction, H_Amount, <<"0">>))
  IN  [k \in DOMAIN bucket |->
         CASE k = "count" -> bucket[k] + 1
           [] k = "total_volume" -> bucket[k] + amount
           [] k = "currency" -> Get(transaction, H_Currency, <<>>)
           [] k = "transactions" ->
                Append(bucket[k], [id |-> Get(transaction, H_GatewayUUID, S_NA),
                                   amount |-> amount,
                                   icpp |-> icpp])
           [] k \in PrimaryTotalKeys -> bucket[k] + icpp[PrimaryOf(k)]
           [] k \in DetailTotalKeys -> bucket[k] + icpp.second_plus_details[DetailOf(k)]
           [] OTHER -> bucket[k]]

\* a plausible slip: the buckets of the region are built anew around the
\* bucket of the transaction
add_transaction_region_reset(st, transaction, icpp, region) ==
  LET card_type == CardTypeOf(transaction)
      bucket    == Accumulate(BucketOf(st, region, card_type), transaction, icpp)
  IN  DictSet(st, region, DictSet(EmptyDict, card_type, bucket))

\* StatisticsAggregator.add_transaction: the statistics after the call
add_transaction(st, transaction, icpp, region) ==
  LET card_type == CardTypeOf(transaction)
      bucket    == Accumulate(BucketOf(st, region, card_type), transaction, icpp)
      inner     == IF region \in DOMAIN st THEN st[region] ELSE EmptyDict
  IN  DictSet(st, region, DictSet(inner, card_type, bucket))

\* a plausible slip: the tally of the reason is set to 1, not incremented
skip_transaction_set_one(reasons, reason) == DictSet(reasons, reason, 1)

\* StatisticsAggregator.skip_transaction: skipped_reasons after the call
skip_transaction(reasons, reason) == DictSet(reasons, reason, Get(reasons, reason, 0) + 1)

\* abs(total / volume * 100) as the exact fraction <<numerator, denominator>>
Percentage(total, volume) == <<Abs(total) * 100, Abs(volume)>>

\* the four averages calculate_percentages stores in a bucket
Averages(bucket) ==
  LET volume == bucket["total_volume"]
      pct(total) == IF volume > 0 THEN Percentage(bucket[total], volume) ELSE <<0, 1>>
  IN  [k \in {"avg_ic_pct", "avg_first_plus_pct", "avg_second_plus_pct", "avg_mdr_pct"} |->
         CASE k = "avg_ic_pct" -> pct("total_ic")
           [] k = "avg_first_plus_pct" -> pct("total_first_plus")
           [] k = "avg_second_plus_pct" -> pct("total_second_plus")
           [] k = "avg_mdr_pct" -> pct("total_mdr")]

\* StatisticsAggregator.calculate_percentages: the statistics after the call
calculate_percentages(st) ==
  [region \in DOMAIN st |->
     [card_type \in DOMAIN st[region] |->
        LET bucket == st[region][card_type]
            avg    == Averages(bucket)
        IN  [k \in DOMAIN bucket \cup DOMAIN avg |->
               IF k \in DOMAIN avg THEN avg[k] ELSE bucket[k]]]]

-----------------------------------------------------------------------------
(* main *)

\* a plausible slip: the Gateway UUID is tried before the Transaction ID
TxnId_uuid_first(transaction) ==
  PyOr(GetOpt(transaction, H_GatewayUUID),
       PyOr(GetOpt(transaction, H_TransactionID), GetOpt(transaction, H_GatewayReference)))

\* a plausible slip: the Gateway Reference is tried first
TxnId_reference_first(transaction) ==
  PyOr(GetOpt(transaction, H_GatewayReference),
       PyOr(GetOpt(transaction, H_TransactionID), GetOpt(transaction, H_GatewayUUID)))

\* the key main looks a transaction up by in the fee data
TxnId(transaction) ==
  PyOr(GetOpt(transaction, H_TransactionID),
       PyOr(GetOpt(transaction, H_GatewayUUID), GetOpt(transaction, H_GatewayReference)))

\* a plausible slip: only a negative MDR counts as no MDR data
ZeroMDR_negative(fees) == fees["mdr_amount"] < 0

\* the fee record has no MDR data
ZeroMDR(fees) == fees["mdr_amount"] = 0

\* the outcome of one iteration of the loop of main for a transaction:
\* <<"skip", reason>> or <<"add", region, icpp>>
Outcome(transaction, fd) ==
  LET txn_id == TxnId(transaction)
      valid  == is_valid_transaction(transaction)
  IN  IF ~valid[1] THEN <<"skip", valid[2]>>
      ELSE IF txn_id \notin DOMAIN fd THEN <<"skip", R_Missing>>
      ELSE IF ZeroMDR(fd[txn_id]) THEN <<"skip", R_ZeroMDR>>
      ELSE LET region == identify_region(Get(transaction, H_Merchant, <<>>),
                                         Get(transaction, H_CardCountry, <<>>))
           IN  <<"add", region, calculate_icpp(transaction, fd[txn_id], region)>>

-----------------------------------------------------------------------------
(* The inputs of a run: workbooks and fee files *)

T_T1         == <<"T", "1">>
T_T2         == <<"T", "2">>
T_T3         == <<"T", "3">>
T_HKStore    == <<"H", "o", "n", "g", " ", "K", "o", "n", "g", " ", "S", "t", "o", "r", "e">>
T_MYStore    == <<"M", "a", "l", "a", "y", "s", "i", "a", " ", "S", "t", "o", "r", "e">>
T_Shop       == <<"S", "h", "o", "p">>
T_MYHK       == <<"M", "a", "l", "a", "y", "s", "i", "a", " ", "H", "o", "n", "g", " ", "K", "o", "n", "g">>
T_HKD        == <<"H", "K", "D">>
T_MYR        == <<"M", "Y", "R">>
T_VISA       == <<"V", "I", "S", "A">>
T_visa       == <<"v", "i", "s", "a">>
T_MC         == <<"M", "C">>
T_SALE       == <<"S", "A", "L", "E">>
T_Refund     == <<"R", "e", "f", "u", "n", "d">>
T_rf         == <<"r", "f">>
T_PartRefund == <<"p", "a", "r", "t", " ", "r", "e", "f", "u", "n", "d">>
T_RFX        == <<"R", "F", "X">>
T_APPROVED   == <<"A", "P", "P", "R", "O", "V", "E", "D">>
T_declined   == <<"d", "e", "c", "l", "i", "n", "e", "d">>
T_Failed     == <<"F", "a", "i", "l", "e", "d">>
T_ERROR      == <<"E", "R", "R", "O", "R">>
T_HKG        == <<"H", "K", "G">>
T_MYS        == <<"M", "Y", "S">>
T_TH         == <<"T", "H">>
T_Title      == <<"R", "e", "p", "o", "r", "t">>

\* the header row of the worksheets of the model, by column
Headers ==
  <<H_GatewayUUID, H_TransactionID, H_GatewayReference, H_Merchant, H_Amount,
    H_Currency, H_CardType, H_PaymentType, H_ProcessorStatus, H_CardCountry>>

\* the texts of xl/sharedStrings.xml, in document order
SharedTexts ==
  Headers \o
  <<T_T1, T_T2, T_T3, T_HKStore, T_MYStore, T_Shop, T_MYHK, T_HKD, T_MYR,
    T_VISA, T_visa, T_MC, T_SALE, T_Refund, T_rf, T_PartRefund, T_RFX,
    T_APPROVED, T_declined, T_Failed, T_ERROR, T_HKG, T_MYS, T_TH, T_Title>>

\* the shared-string part: one <si> with a single <t> per text
SharedPart == [kind |-> "xml", items |-> [i \in DOMAIN SharedTexts |-> <<SharedTexts[i]>>]]

\* the decimal text of a number below 100
DigitsOf(n) ==
  IF n < 10 THEN <<Digits[n + 1]>> ELSE <<Digits[(n \div 10) + 1], Digits[(n % 10) + 1]>>

\* a <c> element: its reference, its type attribute, the text of its <v>
Cell(col, rownum, t, v) == [r |-> <<UpperLetters[col + 1], rownum>>, t |-> t, v |-> v]

\* a cell holding the 0-based index of a shared string
SCell(col, rownum, text) == Cell(col, rownum, "s", DigitsOf(IndexIn(SharedTexts, text) - 1))

\* in the description of a row: a column the row has no cell for
Gap == <<"gap">>

\* the <c> elements of a data row written by column: the Amount column holds
\* a literal number, the others shared strings; a Gap column has no cell
RECURSIVE RowCells(_, _)
RowCells(desc, col) ==
  IF col >= Len(desc) THEN <<>>
  ELSE LET text == desc[col + 1]
           cell == IF Headers[col + 1] = H_Amount THEN Cell(col, "3", "n", text)
                   ELSE SCell(col, "3", text)
       IN  (IF text = Gap THEN <<>> ELSE <<cell>>) \o RowCells(desc, col + 1)

TitleRow  == <<SCell(0, "1", T_Title)>>
HeaderRow == [i \in DOMAIN Headers |-> SCell(i - 1, "2", Headers[i])]

\* a data row that passes every rule: Gateway UUID T1, Hong Kong, amount 100
Base ==
  <<T_T1, Gap, Gap, T_HKStore, <<"1", "0", "0">>, T_HKD, T_VISA, T_SALE, T_APPROVED, T_HKG>>

Row_Valid            == Base
Row_BothIds          == [Base EXCEPT ![2] = T_T2]
Row_TidOnlyMY        == [Base EXCEPT ![1] = Gap, ![2] = T_T2, ![4] = T_MYStore,
                                     ![6] = T_MYR, ![7] = T_visa, ![10] = T_MYS]
Row_NoFee            == [Base EXCEPT ![1] = T_T3]
Row_Refund           == [Base EXCEPT ![8] = T_Refund]
Row_RfAll            == [Base EXCEPT ![1] = T_T3, ![5] = <<"0">>, ![8] = T_rf, ![9] = T_declined]
Row_PartRefund       == [Base EXCEPT ![5] = <<"a", "b", "c">>, ![8] = T_PartRefund]
Row_RFX              == [Base EXCEPT ![8] = T_RFX]
Row_ZeroError        == [Base EXCEPT ![5] = <<"0">>, ![9] = T_ERROR]
Row_InvalidFailed    == [Base EXCEPT ![1] = T_T3, ![5] = <<"a", "b", "c">>, ![9] = T_Failed]
Row_AmountGap        == [Base EXCEPT ![5] = Gap]
Row_EndsBeforeAmount == SubSeq(Base, 1, 4)
Row_Negative         == [Base EXCEPT ![5] = <<"-", "5">>]
Row_DeclinedNoFee    == [Base EXCEPT ![1] = T_T3, ![9] = T_declined]
Row_RefOnly          == [Base EXCEPT ![1] = Gap, ![3] = T_T1]
Row_CardTypeGap      == [Base EXCEPT ![7] = Gap]
Row_EndsBeforeCardType == SubSeq(Base, 1, 6)
Row_MYHK             == [Base EXCEPT ![4] = T_MYHK, ![10] = T_MYS]
Row_ShopTH           == [Base EXCEPT ![4] = T_Shop, ![7] = T_MC, ![10] = T_TH]
Row_ShopNoCountry    == [Base EXCEPT ![4] = T_Shop, ![10] = Gap]
Row_UuidAndRef       == [Base EXCEPT ![1] = T_T3, ![3] = T_T1]

DataRowDescs ==
  {Row_Valid, Row_BothIds, Row_TidOnlyMY, Row_NoFee, Row_Refund, Row_RfAll,
   Row_PartRefund, Row_RFX, Row_ZeroError, Row_InvalidFailed, Row_AmountGap,
   Row_EndsBeforeAmount, Row_Negative, Row_DeclinedNoFee, Row_RefOnly,
   Row_CardTypeGap, Row_EndsBeforeCardType, Row_MYHK, Row_ShopTH,
   Row_ShopNoCountry}

DataRows == {RowCells(d, 0) : d \in DataRowDescs}

\* the sequences over S of length at most n
SeqsUpTo(S, n) == UNION {[1..k -> S] : k \in 0..n}

\* a readable workbook with a title row, the header row and the data rows
Workbook(data_rows) ==
  [archive |-> "ok", shared |-> SharedPart,
   sheet |-> [kind |-> "xml", rows |-> <<TitleRow, HeaderRow>> \o data_rows]]

\* a worksheet with another header row: no Transaction ID and no Gateway
\* Reference column, and one data row
ScenarioHeaders ==
  <<H_GatewayUUID, H_Merchant, H_Amount, H_Currency, H_CardType, H_PaymentType,
    H_ProcessorStatus, H_CardCountry>>

ScenarioBook ==
  [archive |-> "ok", shared |-> SharedPart,
   sheet |-> [kind |-> "xml",
              rows |-> <<TitleRow,
                         [i \in DOMAIN ScenarioHeaders |-> SCell(i - 1, "2", ScenarioHeaders[i])],
                         <<SCell(0, "3", T_T1), SCell(1, "3", T_HKStore),
                           Cell(2, "3", "n", <<"1", "0", "0">>), SCell(3, "3", T_HKD),
                           SCell(4, "3", T_VISA), SCell(5, "3", T_SALE),
                           SCell(6, "3", T_APPROVED), SCell(7, "3", T_HKG)>>>>]]

\* the workbooks of the model: every choice of at most MaxRows data rows, the
\* sheets of fewer than 3 rows, a workbook without shared strings, the
\* workbook with the other header row, one whose row has a Gateway UUID that
\* is in no fee file and a Gateway Reference, and the ones that cannot be read: one
\* whose second data row has a shared-string index that is no integer, one
\* that does not open, and those with a malformed or missing part
Books ==
  {Workbook(rows) : rows \in SeqsUpTo(DataRows, MaxRows)}
  \cup {ScenarioBook, Workbook(<<RowCells(Row_UuidAndRef, 0)>>)}
  \cup {[archive |-> "ok", shared |-> SharedPart, sheet |-> [kind |-> "xml", rows |-> rs]] :
          rs \in {<<>>, <<TitleRow>>, <<<<Cell(0, "1", "s", <<"a", "b", "c">>)>>, HeaderRow>>}}
  \cup {[Workbook(<<RowCells(Row_Valid, 0)>>) EXCEPT !.shared = [kind |-> "absent", items |-> <<>>]],
        Workbook(<<RowCells(Row_Valid, 0), <<Cell(0, "3", "s", <<"a", "b", "c">>)>>>>),
        [Workbook(<<>>) EXCEPT !.archive = "unreadable"],
        [Workbook(<<>>) EXCEPT !.shared = [kind |-> "malformed", items |-> <<>>]],
        [Workbook(<<>>) EXCEPT !.sheet = [kind |-> "absent", rows |-> <<>>]],
        [Workbook(<<>>) EXCEPT !.sheet = [kind |-> "malformed", rows |-> <<>>]]}

\* the columns of the fee files of the model
FeeFieldNames ==
  <<"NP Transaction ID", "Transaction ID", "Gateway Reference", "Gateway UUID",
    "MDR Amount", "MDR Currency", "Interchange Amount", "Scheme Fee Bucket Amount",
    "Gateway Fee Amount", "VAT Amount">>

\* csv.DictReader: the dictionary of one line, None for the fields a short
\* line does not reach
DictRow(fieldnames, values) ==
  [f \in {fieldnames[i] : i \in DOMAIN fieldnames} |->
     LET i == CHOOSE j \in DOMAIN fieldnames :
                fieldnames[j] = f /\ \A m \in DOMAIN fieldnames : fieldnames[m] = f => m <= j
     IN  IF i <= Len(values) THEN values[i] ELSE None]

\* a fee file whose header names no NP Transaction ID and no Gateway
\* Reference column: the fields at their places belong to other columns
FeeFieldNamesShort ==
  <<"Note", "Transaction ID", "Terminal", "Gateway UUID",
    "MDR Amount", "MDR Currency", "Interchange Amount", "Scheme Fee Bucket Amount",
    "Gateway Fee Amount", "VAT Amount">>

\* the rows csv.DictReader yields for a file with the given header and lines
FeeFileWith(fieldnames, lines) ==
  [kind |-> "ok", rows |-> [i \in DOMAIN lines |-> DictRow(fieldnames, lines[i])]]

FeeFile(lines) == FeeFileWith(FeeFieldNames, lines)

\* the lines of the fee files, amounts in cents: T1 has MDR 3.00, interchange
\* 1.50, scheme fee 0.30, gateway fee 0.10
Fee_T1     == <<T_T1, <<>>, <<>>, <<>>, <<"3", "0", "0">>, T_HKD, <<"1", "5", "0">>, <<"3", "0">>, <<"1", "0">>, <<"0">>>>
Fee_T2     == <<T_T2, <<>>, <<>>, <<>>, <<"2", "0", "0">>, T_MYR, <<"5", "0">>, <<"2", "0">>, <<>>, <<"5", "0", "0">>>>
Fee_T1_Bad == <<T_T1, <<>>, <<>>, <<>>, <<"a", "b", "c">>, T_HKD, <<"1", "5", "0">>>>
Fee_T2_Nil == <<T_T2, <<>>, <<>>, <<>>, <<>>, T_MYR, <<"5", "0">>, <<"2", "0">>>>

\* the fee files of the runs of the model
FeeFiles ==
  {FeeFile(<<Fee_T1, Fee_T2>>),
   FeeFile(<<Fee_T1>>),
   FeeFile(<<Fee_T1_Bad, Fee_T2_Nil>>),
   [kind |-> "unreadable", rows |-> <<>>]}

-----------------------------------------------------------------------------
(* The run of main *)

NoCall == [op |-> "none"]

Init ==
  /\ book \in Books
  /\ csv \in FeeFiles
  /\ pc = "read"
  /\ transactions = <<>>
  /\ fee_data = EmptyDict
  /\ idx = 1
  /\ stats = EmptyDict
  /\ skipped_count = 0
  /\ skipped_reasons = EmptyDict
  /\ output = <<>>
  /\ call = NoCall
  /\ ret = NoCall

\* Step 1: excel_reader.read() returns the transactions
ReadExcel ==
  /\ pc = "read"
  /\ ~ReadRaises(book)
  /\ transactions' = read(book)
  /\ pc' = "load"
  /\ UNCHANGED <<book, csv, fee_data, idx, stats, skipped_count, skipped_reasons, output, call, ret>>

\* Step 1 raises: the error is printed and the run exits with status 1
ReadExcelFails ==
  /\ pc = "read"
  /\ ReadRaises(book)
  /\ pc' = "exit1"
  /\ UNCHANGED <<book, csv, transactions, fee_data, idx, stats, skipped_count, skipped_reasons, output, call, ret>>

\* Step 2: fee_loader.load() returns the fee data
LoadFees ==
  /\ pc = "load"
  /\ ~LoadRaises(csv)
  /\ fee_data' = load(csv)
  /\ pc' = "process"
  /\ UNCHANGED <<book, csv, transactions, idx, stats, skipped_count, skipped_reasons, output, call, ret>>

\* Step 2 raises: the error is printed and the run exits with status 1
LoadFeesFails ==
  /\ pc = "load"
  /\ LoadRaises(csv)
  /\ pc' = "exit1"
  /\ UNCHANGED <<book, csv, transactions, fee_data, idx, stats, skipped_count, skipped_reasons, output, call, ret>>

\* Step 3, one iteration that skips the transaction
SkipTransaction ==
  /\ pc = "process"
  /\ idx <= Len(transactions)
  /\ LET o == Outcome(transactions[idx], fee_data)
     IN  /\ o[1] = "skip"
         /\ skipped_count' = skipped_count + 1
         /\ skipped_reasons' = skip_transaction(skipped_reasons, o[2])
  /\ idx' = idx + 1
  /\ UNCHANGED <<book, csv, pc, transactions, fee_data, stats, output, call, ret>>

\* Step 3, one iteration that adds the transaction to the statistics
AddTransaction ==
  /\ pc = "process"
  /\ idx <= Len(transactions)
  /\ LET o == Outcome(transactions[idx], fee_data)
     IN  /\ o[1] = "add"
         /\ stats' = add_transaction(stats, transactions[idx], o[3], o[2])
  /\ idx' = idx + 1
  /\ UNCHANGED <<book, csv, pc, transactions, fee_data, skipped_count, skipped_reasons, output, call, ret>>

\* Step 4: after the last transaction, aggregator.calculate_percentages()
CalculatePercentages ==
  /\ pc = "process"
  /\ idx > Len(transactions)
  /\ stats' = calculate_percentages(stats)
  /\ pc' = "report"
  /\ UNCHANGED <<book, csv, transactions, fee_data, idx, skipped_count, skipped_reasons, output, call, ret>>

\* Step 5: the console report, the CSV and the HTML report are written
Report ==
  /\ pc = "report"
  /\ output' = <<"console", "csv", "html">>
  /\ pc' = "done"
  /\ UNCHANGED <<book, csv, transactions, fee_data, idx, stats, skipped_count, skipped_reasons, call, ret>>

Next ==
  \/ ReadExcel
  \/ ReadExcelFails
  \/ LoadFees
  \/ LoadFeesFails
  \/ SkipTransaction
  \/ AddTransaction
  \/ CalculatePercentages
  \/ Report

Spec == Init /\ [][Next]_vars

-----------------------------------------------------------------------------
(* calculate_icpp on its own: every fee record of the model, every region *)

Regions == {"HK", "MY", "TH", "UNKNOWN"}

Amounts == (-1)..MaxAmt

\* the component vectors of the model: one or two components take any
\* amount, the others are 0
ComponentChoices ==
  {[k \in DetailKeys |-> IF k = k1 THEN v1 ELSE IF k = k2 THEN v2 ELSE 0] :
     k1 \in DetailKeys, k2 \in {"gateway_fee", "st"}, v1 \in Amounts, v2 \in {0, MaxAmt}}

\* the fee record with the given primary amounts and component amounts
MakeFees(mdr, interchange, scheme_fee, components) ==
  [key \in AmountKeys \cup CurrencyKeys |->
     CASE key = "mdr_amount" -> mdr
       [] key = "interchange_amount" -> interchange
       [] key = "scheme_fee_amount" -> scheme_fee
       [] key \in CurrencyKeys -> T_HKD
       [] OTHER -> components[CHOOSE d \in DetailKeys : SourceOf(d) = key]]

Idle ==
  /\ book = Workbook(<<>>)
  /\ csv = FeeFile(<<>>)
  /\ transactions = <<>>
  /\ fee_data = EmptyDict
  /\ idx = 1
  /\ stats = EmptyDict
  /\ skipped_count = 0
  /\ skipped_reasons = EmptyDict
  /\ output = <<>>

InitIcpp ==
  /\ Idle
  /\ pc = "call"
  /\ \E mdr \in Amounts, interchange \in Amounts, scheme_fee \in Amounts,
        components \in ComponentChoices, region \in Regions :
       call = [op |-> "calculate_icpp",
               fees |-> MakeFees(mdr, interchange, scheme_fee, components),
               region |-> region]
  /\ ret = NoCall

CallIcpp ==
  /\ pc = "call"
  /\ call.op = "calculate_icpp"
  /\ ret' = calculate_icpp(EmptyDict, call.fees, call.region)
  /\ pc' = "return"
  /\ UNCHANGED <<book, csv, transactions, fee_data, idx, stats, skipped_count, skipped_reasons, output, call>>

NextIcpp == CallIcpp

SpecIcpp == InitIcpp /\ [][NextIcpp]_vars

-----------------------------------------------------------------------------
(* FeeDataLoader.load on its own, one CSV line per step *)

\* the identifier fields of a CSV line of the model: NP Transaction ID,
\* Transaction ID, Gateway Reference, Gateway UUID
IdFields ==
  {<<T_T1, <<>>, <<>>, <<>>>>,
   <<T_T2, T_T1, T_T3, T_T3>>,
   <<<<>>, T_T1, T_T2, <<>>>>,
   <<<<>>, <<>>, T_T2, T_T1>>,
   <<<<>>, <<>>, <<>>, T_T3>>,
   <<<<>>, <<>>, <<>>, <<>>>>}

\* the fields after the identifiers: MDR Amount, MDR Currency, Interchange
\* Amount, Scheme Fee Bucket Amount, Gateway Fee Amount, VAT Amount
FeeFields ==
  {<<<<"3", "0", "0">>, T_HKD, <<"1", "5", "0">>, <<"3", "0">>, <<"1", "0">>, <<"5">>>>,
   <<<<"a", "b", "c">>, T_MYR, <<"7">>, <<"x">>, <<>>, <<"-", "4">>>>,
   <<<<>>, <<>>, <<" ", "8", " ">>, <<"-">>, <<"2">>>>,
   <<<<"2", "0">>>>}

\* the CSV lines of the model; a line of one field only has an identifier
FeeLines ==
  {ids \o fields : ids \in IdFields, fields \in FeeFields}
  \cup {<<T_T2>>, <<<<>>>>}

InitLoad ==
  /\ book = Workbook(<<>>)
  /\ csv \in {FeeFileWith(fieldnames, lines) :
                fieldnames \in {FeeFieldNames, FeeFieldNamesShort},
                lines \in SeqsUpTo(FeeLines, MaxFeeRows)}
  /\ pc = "loading"
  /\ transactions = <<>>
  /\ fee_data = EmptyDict
  /\ idx = 1
  /\ stats = EmptyDict
  /\ skipped_count = 0
  /\ skipped_reasons = EmptyDict
  /\ output = <<>>
  /\ call = NoCall
  /\ ret = NoCall

\* one iteration of the loop of load: the line is skipped or stored
LoadLine ==
  /\ pc = "loading"
  /\ idx <= Len(csv.rows)
  /\ fee_data' = LoadRow(fee_data, csv.rows[idx])
  /\ idx' = idx + 1
  /\ UNCHANGED <<book, csv, pc, transactions, stats, skipped_count, skipped_reasons, output, call, ret>>

\* the file is exhausted: load returns self.fee_data
LoadReturns ==
  /\ pc = "loading"
  /\ idx > Len(csv.rows)
  /\ pc' = "loaded"
  /\ UNCHANGED <<book, csv, transactions, fee_data, idx, stats, skipped_count, skipped_reasons, output, call, ret>>

NextLoad == LoadLine \/ LoadReturns

SpecLoad == InitLoad /\ [][NextLoad]_vars

-----------------------------------------------------------------------------
(* Properties of calculate_icpp, checked under SpecIcpp *)

\* the sum of the twelve named sub-fee amounts of a fee record
TwelveSubFees(f) ==
  f["gateway_fee_amount"] + f["authorization_amount"] + f["clearing_amount"]
    + f["cross_border_amount"] + f["cross_currency_amount"] + f["preauthorization_amount"]
    + f["three_ds_amount"] + f["non_three_ds_amount"]
    + f["vat_amount"] + f["wht_amount"] + f["grt_amount"] + f["st_amount"]

\* C1: for every fee record and region, calculate_icpp returns
\* second_plus = mdr - ic - first_plus and
\* net_acquirer_markup = second_plus - (sum of the twelve sub-fees), negative
\* results included, and the twelve sub-fees are those of the fee record.
C1_Waterfall ==
  pc = "return" =>
    LET f == call.fees
        d == ret.second_plus_details
    IN  /\ ret.mdr = f["mdr_amount"]
        /\ ret.ic = f["interchange_amount"]
        /\ ret.second_plus = ret.mdr - ret.ic - ret.first_plus
        /\ d["net_acquirer_markup"] = ret.second_plus - TwelveSubFees(f)
        /\ d["gateway_fee"] = f["gateway_fee_amount"]
        /\ d["authorization_fee"] = f["authorization_amount"]
        /\ d["clearing_fee"] = f["clearing_amount"]
        /\ d["cross_border_fee"] = f["cross_border_amount"]
        /\ d["cross_currency_fee"] = f["cross_currency_amount"]
        /\ d["preauth_fee"] = f["preauthorization_amount"]
        /\ d["three_ds_fee"] = f["three_ds_amount"]
        /\ d["non_three_ds_fee"] = f["non_three_ds_amount"]
        /\ d["vat"] = f["vat_amount"]
        /\ d["wht"] = f["wht_amount"]
        /\ d["grt"] = f["grt_amount"]
        /\ d["st"] = f["st_amount"]

\* a call returned a negative markup although the 2nd plus is positive: the
\* sub-fees exceed it
C1_Witness ==
  /\ pc = "return"
  /\ ret.second_plus > 0
  /\ TwelveSubFees(call.fees) > ret.second_plus
  /\ ret.second_plus_details["net_acquirer_markup"] < 0

\* C2: region MY yields first_plus = 0 and second_plus = mdr - ic whatever
\* the scheme fee of the record; every other region yields
\* first_plus = scheme_fee_amount.
C2_MalaysiaWaiver ==
  pc = "return" =>
    LET f == call.fees
    IN  /\ call.region = "MY" =>
             /\ ret.first_plus = 0
             /\ ret.second_plus = f["mdr_amount"] - f["interchange_amount"]
        /\ call.region \in {"HK", "TH", "UNKNOWN"} =>
             ret.first_plus = f["scheme_fee_amount"]

\* a call for region MY with a record that carries a scheme fee
C2_Witness ==
  /\ pc = "return"
  /\ call.region = "MY"
  /\ call.fees["scheme_fee_amount"] > 0
  /\ ret.first_plus = 0

-----------------------------------------------------------------------------
(* Properties of the validity filter and of the fee lookup, checked under Spec *)

\* one iteration of the loop of main is taken on transactions[idx]
LoopStep == pc = "process" /\ idx' = idx + 1

\* the step tallies exactly one skip, under the given reason, and leaves the
\* statistics alone
TalliesSkip(reason) ==
  /\ skipped_count' = skipped_count + 1
  /\ DOMAIN skipped_reasons' = DOMAIN skipped_reasons \cup {reason}
  /\ \A r \in DOMAIN skipped_reasons' :
       skipped_reasons'[r] = (IF r \in DOMAIN skipped_reasons THEN skipped_reasons[r] ELSE 0)
                               + (IF r = reason THEN 1 ELSE 0)
  /\ stats' = stats

\* the step tallies no skip
TalliesNothing == skipped_count' = skipped_count /\ skipped_reasons' = skipped_reasons

\* the rules of the filter, each stated on the fields of the transaction; a
\* field the transaction does not have reads as ''
Rule1Fails(t) ==
  LET p == Upper(Get(t, H_PaymentType, <<>>))
  IN  Contains(p, <<"R", "E", "F", "U", "N", "D">>) \/ p = <<"R", "F">>

Rule2Fails(t) ==
  LET a == Get(t, H_Amount, <<>>)
  IN  ~IsNumeral(a) \/ NumeralValue(a) = 0

Rule3Fails(t) ==
  Upper(Get(t, H_ProcessorStatus, <<>>))
    \in {<<"D", "E", "C", "L", "I", "N", "E", "D">>, <<"F", "A", "I", "L", "E", "D">>,
         <<"E", "R", "R", "O", "R">>}

\* the first non-empty of Transaction ID, Gateway UUID, Gateway Reference
\* (None when the three are empty or missing)
IdTransactionFirst(t) ==
  IF Truthy(GetOpt(t, H_TransactionID)) THEN t[H_TransactionID]
  ELSE IF Truthy(GetOpt(t, H_GatewayUUID)) THEN t[H_GatewayUUID]
  ELSE IF Truthy(GetOpt(t, H_GatewayReference)) THEN t[H_GatewayReference]
  ELSE None

\* the first non-empty of Gateway UUID, Transaction ID, Gateway Reference
IdGatewayFirst(t) ==
  IF Truthy(GetOpt(t, H_GatewayUUID)) THEN t[H_GatewayUUID]
  ELSE IF Truthy(GetOpt(t, H_TransactionID)) THEN t[H_TransactionID]
  ELSE IF Truthy(GetOpt(t, H_GatewayReference)) THEN t[H_GatewayReference]
  ELSE None

Rule4Fails(t) == IdTransactionFirst(t) \notin DOMAIN fee_data

Rule5Fails(t) == ~Rule4Fails(t) /\ fee_data[IdTransactionFirst(t)]["mdr_amount"] = 0

\* the number of the first rule the transaction fails, 0 when it passes all
FirstFailingRule(t) ==
  IF Rule1Fails(t) THEN 1
  ELSE IF Rule2Fails(t) THEN 2
  ELSE IF Rule3Fails(t) THEN 3
  ELSE IF Rule4Fails(t) THEN 4
  ELSE IF Rule5Fails(t) THEN 5
  ELSE 0

\* the reasons a rule rejects with
ReasonsOfRule(n, t) ==
  CASE n = 1 -> {R_Refund}
    [] n = 2 -> {R_Invalid, R_Zero}
    [] n = 3 -> {R_Status \o Upper(Get(t, H_ProcessorStatus, <<>>))}
    [] n = 4 -> {R_Missing}
    [] n = 5 -> {R_ZeroMDR}
    [] OTHER -> {}

\* C3: the five rules are evaluated in the order refund, amount, status,
\* missing fee record, zero MDR; a transaction is tallied once, under a
\* reason of the first rule it fails (for the status rule, "Status: " and
\* the upper-cased status), and one that fails no rule is not tallied.
C3_FirstFailingRuleWins ==
  [][LoopStep =>
       LET t == transactions[idx]
           n == FirstFailingRule(t)
       IN  IF n = 0 THEN TalliesNothing
           ELSE \E reason \in ReasonsOfRule(n, t) : TalliesSkip(reason)]_vars

\* two transactions were skipped: one that fails rules 1, 2, 3 and 4 went
\* under the refund reason, one that fails rules 3 and 4 under its status
C3_Witness ==
  /\ pc = "process"
  /\ idx = 3
  /\ Rule1Fails(transactions[1]) /\ Rule2Fails(transactions[1])
  /\ Rule3Fails(transactions[1]) /\ Rule4Fails(transactions[1])
  /\ ~Rule1Fails(transactions[2]) /\ ~Rule2Fails(transactions[2])
  /\ Rule3Fails(transactions[2]) /\ Rule4Fails(transactions[2])
  /\ transactions[2][H_ProcessorStatus] = T_declined
  /\ skipped_count = 2
  /\ DOMAIN skipped_reasons = {R_Refund, R_Status \o <<"D", "E", "C", "L", "I", "N", "E", "D">>}

\* C4: a transaction whose upper-cased Payment Type contains REFUND or is
\* exactly RF is tallied under "Refund transaction" and added to no bucket,
\* whatever its amount, its status and the fee data.
C4_RefundRejected ==
  [][(LoopStep /\ Rule1Fails(transactions[idx])) => TalliesSkip(R_Refund)]_vars

\* a "part refund" with an unparseable amount and a matching fee record was
\* tallied as a refund
C4_Witness ==
  /\ pc = "process"
  /\ idx = 2
  /\ Get(transactions[1], H_PaymentType, <<>>) = T_PartRefund
  /\ ~IsNumeral(Get(transactions[1], H_Amount, <<>>))
  /\ IdTransactionFirst(transactions[1]) \in DOMAIN fee_data
  /\ skipped_reasons = [r \in {R_Refund} |-> 1]
  /\ stats = EmptyDict

\* C5: a transaction that is no refund is rejected with "Invalid amount" when
\* its Amount (the empty string when the row has no Amount cell) does not
\* parse, with "Zero amount" when it parses to 0, and passes the amount rule
\* otherwise.
C5_AmountRule ==
  [][(LoopStep /\ ~Rule1Fails(transactions[idx])) =>
       LET a == Get(transactions[idx], H_Amount, <<>>)
       IN  IF ~IsNumeral(a) THEN TalliesSkip(R_Invalid)
           ELSE IF NumeralValue(a) = 0 THEN TalliesSkip(R_Zero)
           ELSE /\ Get(skipped_reasons', R_Invalid, 0) = Get(skipped_reasons, R_Invalid, 0)
                /\ Get(skipped_reasons', R_Zero, 0) = Get(skipped_reasons, R_Zero, 0)]_vars

\* C6: a transaction that passes rules 1-3 is tallied under "Missing fee
\* data" when its lookup key is no key of the fee data, and under "Zero MDR"
\* when the record found has MDR amount 0; no bucket is created or changed.
C6_MissingFeeOrZeroMDR ==
  [][(LoopStep /\ ~Rule1Fails(transactions[idx]) /\ ~Rule2Fails(transactions[idx])
               /\ ~Rule3Fails(transactions[idx])) =>
       LET t == transactions[idx]
       IN  /\ Rule4Fails(t) => TalliesSkip(R_Missing)
           /\ Rule5Fails(t) => TalliesSkip(R_ZeroMDR)]_vars

\* the fee line of the first transaction had a non-numeric MDR Amount and
\* the transaction went under "Zero MDR"; the second one has no fee record
\* and went under "Missing fee data"
C6_Witness ==
  /\ pc = "process"
  /\ idx = 3
  /\ \E k \in DOMAIN csv.rows :
       /\ csv.rows[k]["NP Transaction ID"] = IdTransactionFirst(transactions[1])
       /\ csv.rows[k]["MDR Amount"] = <<"a", "b", "c">>
  /\ IdTransactionFirst(transactions[2]) \notin DOMAIN fee_data
  /\ skipped_reasons = [r \in {R_ZeroMDR, R_Missing} |-> 1]
  /\ stats = EmptyDict

\* the step looks the transaction up by the given key: it is tallied under
\* "Missing fee data" exactly when the key is no key of the fee data, and when
\* it is added, the breakdown stored is that of the record under the key
LooksUpBy(t, id) ==
  /\ id \notin DOMAIN fee_data => TalliesSkip(R_Missing)
  /\ id \in DOMAIN fee_data =>
       /\ Get(skipped_reasons', R_Missing, 0) = Get(skipped_reasons, R_Missing, 0)
       /\ stats' # stats =>
            \E region \in DOMAIN stats' : \E card_type \in DOMAIN stats'[region] :
              LET refs == stats'[region][card_type]["transactions"]
              IN  /\ refs # <<>>
                  /\ refs[Len(refs)].icpp.mdr = fee_data[id]["mdr_amount"]
                  /\ refs[Len(refs)].icpp.ic = fee_data[id]["interchange_amount"]

PassesFilter(t) == ~Rule1Fails(t) /\ ~Rule2Fails(t) /\ ~Rule3Fails(t)

\* C7, as stated: a transaction is joined to the fee data by the first
\* non-empty of Gateway UUID, Transaction ID, Gateway Reference.
C7_GatewayUuidFirst ==
  [][(LoopStep /\ PassesFilter(transactions[idx])) =>
       LooksUpBy(transactions[idx], IdGatewayFirst(transactions[idx]))]_vars

\* C7, amended: a transaction is joined to the fee data by the first
\* non-empty of Transaction ID, Gateway UUID, Gateway Reference; one with
\* both a Gateway UUID and a Transaction ID is looked up by its Transaction ID.
C7_TransactionIdFirst ==
  [][(LoopStep /\ PassesFilter(transactions[idx])) =>
       LooksUpBy(transactions[idx], IdTransactionFirst(transactions[idx]))]_vars

\* a transaction with both identifiers, each a key of the fee data, was added
\* with the breakdown of the record under its Transaction ID
C7_Witness ==
  /\ pc = "process"
  /\ idx = 2
  /\ LET t == transactions[1]
     IN  /\ Truthy(GetOpt(t, H_GatewayUUID)) /\ Truthy(GetOpt(t, H_TransactionID))
         /\ t[H_GatewayUUID] \in DOMAIN fee_data
         /\ t[H_TransactionID] \in DOMAIN fee_data
         /\ fee_data[t[H_GatewayUUID]]["mdr_amount"] # fee_data[t[H_TransactionID]]["mdr_amount"]
         /\ \E region \in DOMAIN stats : \E card_type \in DOMAIN stats[region] :
              /\ stats[region][card_type]["count"] = 1
              /\ stats[region][card_type]["total_mdr"] = fee_data[t[H_TransactionID]]["mdr_amount"]

-----------------------------------------------------------------------------
(* Properties of FeeDataLoader.load, checked under SpecLoad *)

\* the first non-empty of the four identifier columns of a CSV row, None
\* when all four are empty or absent
FirstIdColumn(row) ==
  IF Truthy(GetOpt(row, "NP Transaction ID")) THEN row["NP Transaction ID"]
  ELSE IF Truthy(GetOpt(row, "Transaction ID")) THEN row["Transaction ID"]
  ELSE IF Truthy(GetOpt(row, "Gateway Reference")) THEN row["Gateway Reference"]
  ELSE IF Truthy(GetOpt(row, "Gateway UUID")) THEN row["Gateway UUID"]
  ELSE None

\* the loader takes one row of the file
LoadStep == pc = "loading" /\ idx' = idx + 1

\* C8: load keys a row by the first non-empty of NP Transaction ID,
\* Transaction ID, Gateway Reference, Gateway UUID; a row with none of them
\* adds no entry and does not end the loop, which returns only after the
\* last row.
C8_RowIdentifier ==
  [][/\ LoadStep =>
          LET id == FirstIdColumn(csv.rows[idx])
          IN  /\ pc' = "loading"
              /\ id = None => fee_data' = fee_data
              /\ id # None =>
                   /\ DOMAIN fee_data' = DOMAIN fee_data \cup {id}
                   /\ fee_data'[id]["mdr_currency"] = csv.rows[idx]["MDR Currency"]
                   /\ \A other \in DOMAIN fee_data \ {id} : fee_data'[other] = fee_data[other]
     /\ (pc = "loading" /\ pc' = "loaded") => idx > Len(csv.rows)]_vars

\* a file was loaded whose first row has no identifier and whose second row
\* has no NP Transaction ID but a Transaction ID and a Gateway Reference: the
\* only key is the Transaction ID
C8_Witness ==
  /\ pc = "loaded"
  /\ Len(csv.rows) = 2
  /\ FirstIdColumn(csv.rows[1]) = None
  /\ "NP Transaction ID" \in DOMAIN csv.rows[2]
  /\ ~Truthy(csv.rows[2]["NP Transaction ID"])
  /\ Truthy(csv.rows[2]["Transaction ID"])
  /\ Truthy(csv.rows[2]["Gateway Reference"])
  /\ csv.rows[2]["Gateway Reference"] # csv.rows[2]["Transaction ID"]
  /\ DOMAIN fee_data = {csv.rows[2]["Transaction ID"]}

\* the amount a CSV field is coerced to: 0 for a missing column, a missing
\* field, the empty string and a text that is no number
Coerced(row, column) ==
  IF column \notin DOMAIN row THEN 0
  ELSE IF row[column] = None \/ row[column] = <<>> THEN 0
  ELSE IF ~IsNumeral(row[column]) THEN 0
  ELSE NumeralValue(row[column])

\* the currency field stored for a column: '' for a missing column
Copied(row, column) == IF column \in DOMAIN row THEN row[column] ELSE <<>>

\* the record holds the values of the row, and nothing else
RecordIsOfRow(record, row) ==
  /\ DOMAIN record = AmountKeys \cup CurrencyKeys
  /\ \A i \in DOMAIN AmountColumns :
       record[AmountColumns[i][1]] = Coerced(row, AmountColumns[i][2])
  /\ \A i \in DOMAIN CurrencyColumns :
       record[CurrencyColumns[i][1]] = Copied(row, CurrencyColumns[i][2])

\* the rows taken so far
Taken == 1..(idx - 1)

\* C9: after any rows, the fee data holds exactly one record per identifier
\* that occurred, and the record is that of the last row with the identifier,
\* with no field of an earlier row.
C9_LastRowWins ==
  pc \in {"loading", "loaded"} =>
    /\ DOMAIN fee_data = {FirstIdColumn(csv.rows[k]) : k \in Taken} \ {None}
    /\ \A k \in Taken :
         LET id == FirstIdColumn(csv.rows[k])
         IN  (id # None /\ \A j \in Taken : j > k => FirstIdColumn(csv.rows[j]) # id)
               => RecordIsOfRow(fee_data[id], csv.rows[k])

\* two rows with one identifier were loaded; the first has an MDR amount, an
\* interchange amount and a currency, the second another MDR amount only:
\* the record has the second MDR amount and no interchange amount
C9_Witness ==
  /\ pc = "loaded"
  /\ Len(csv.rows) = 2
  /\ FirstIdColumn(csv.rows[1]) # None
  /\ FirstIdColumn(csv.rows[1]) = FirstIdColumn(csv.rows[2])
  /\ Coerced(csv.rows[1], "MDR Amount") = 300
  /\ Coerced(csv.rows[1], "Interchange Amount") = 150
  /\ csv.rows[2]["Interchange Amount"] = None
  /\ Cardinality(DOMAIN fee_data) = 1
  /\ \A id \in DOMAIN fee_data :
       /\ fee_data[id]["mdr_amount"] = 20
       /\ fee_data[id]["interchange_amount"] = 0
       /\ fee_data[id]["mdr_currency"] = None

\* C10: each amount of a stored row is coerced on its own: 0 for a missing
\* column, a missing or empty field and a non-numeric text, the value for a
\* numeric text; the row is stored and the loop goes on.
C10_LenientAmounts ==
  [][(LoadStep /\ FirstIdColumn(csv.rows[idx]) # None) =>
       LET row == csv.rows[idx]
           rec == fee_data'[FirstIdColumn(row)]
       IN  /\ pc' = "loading"
           /\ \A i \in DOMAIN AmountColumns :
                rec[AmountColumns[i][1]] = Coerced(row, AmountColumns[i][2])]_vars

\* a row was stored whose MDR amount and scheme fee are no numbers, whose
\* gateway fee is empty, whose interchange and VAT amounts are numbers, and
\* which has no clearing column
C10_Witness ==
  /\ pc = "loaded"
  /\ Len(csv.rows) = 1
  /\ csv.rows[1]["MDR Amount"] = <<"a", "b", "c">>
  /\ csv.rows[1]["Gateway Fee Amount"] = <<>>
  /\ "Clearing Amount" \notin DOMAIN csv.rows[1]
  /\ \E id \in DOMAIN fee_data :
       /\ fee_data[id]["mdr_amount"] = 0
       /\ fee_data[id]["interchange_amount"] = 7
       /\ fee_data[id]["scheme_fee_amount"] = 0
       /\ fee_data[id]["gateway_fee_amount"] = 0
       /\ fee_data[id]["clearing_amount"] = 0
       /\ fee_data[id]["vat_amount"] = -4

-----------------------------------------------------------------------------
(* Properties of the region and of the grouping, checked under Spec *)

\* the transaction fails none of the five rules
Accepted(t) == FirstFailingRule(t) = 0

\* the region of a merchant name and a card country, keyword by keyword
RegionOf(merchant, card_country) ==
  IF Contains(merchant, <<"H", "o", "n", "g", " ", "K", "o", "n", "g">>) THEN "HK"
  ELSE IF Contains(merchant, <<"M", "a", "l", "a", "y", "s", "i", "a">>) THEN "MY"
  ELSE IF Contains(merchant, <<"T", "h", "a", "i", "l", "a", "n", "d">>) THEN "TH"
  ELSE IF card_country \in {<<"H", "K", "G">>, <<"H", "K">>} THEN "HK"
  ELSE IF card_country \in {<<"M", "Y", "S">>, <<"M", "Y">>} THEN "MY"
  ELSE IF card_country \in {<<"T", "H", "A">>, <<"T", "H">>} THEN "TH"
  ELSE "UNKNOWN"

\* the step adds one transaction to a bucket of the region and to no other
\* region, and tallies no skip
AddsToRegion(region) ==
  /\ TalliesNothing
  /\ region \in DOMAIN stats'
  /\ \E card_type \in DOMAIN stats'[region] :
       stats'[region][card_type]["count"] = BucketOf(stats, region, card_type)["count"] + 1
  /\ \A other \in DOMAIN stats' \ {region} : other \in DOMAIN stats /\ stats'[other] = stats[other]

\* C11: an accepted transaction is aggregated under the code of the first of
\* the keywords Hong Kong, Malaysia, Thailand (in this order) that occurs in
\* its Merchant, else under the region of its Card Country (HKG/HK, MYS/MY,
\* THA/TH), else under UNKNOWN; it is not skipped.
C11_RegionByKeywordOrder ==
  [][(LoopStep /\ Accepted(transactions[idx])) =>
       LET t == transactions[idx]
       IN  AddsToRegion(RegionOf(Get(t, H_Merchant, <<>>), Get(t, H_CardCountry, <<>>)))]_vars

\* "Malaysia Hong Kong" with card country MYS went to HK, and a merchant
\* without keyword and without card country went to UNKNOWN; nothing skipped
C11_Witness ==
  /\ pc = "process"
  /\ idx = 3
  /\ Get(transactions[1], H_Merchant, <<>>) = T_MYHK
  /\ Get(transactions[1], H_CardCountry, <<>>) = T_MYS
  /\ Get(transactions[2], H_Merchant, <<>>) = T_Shop
  /\ H_CardCountry \notin DOMAIN transactions[2]
  /\ DOMAIN stats = {"HK", "UNKNOWN"}
  /\ \A region \in DOMAIN stats : \E card_type \in DOMAIN stats[region] :
       stats[region][card_type]["count"] = 1
  /\ skipped_count = 0

\* the fee file has one line for T1, under NP Transaction ID, with MDR 3.00,
\* interchange 1.50, scheme fee 0.30 and gateway fee 0.10 (in cents) and no
\* other amount but zeros
ScenarioFeeRow ==
  /\ csv.kind = "ok"
  /\ \E k \in DOMAIN csv.rows :
       /\ \A j \in DOMAIN csv.rows : csv.rows[j]["NP Transaction ID"] = T_T1 <=> j = k
       /\ csv.rows[k]["MDR Amount"] = <<"3", "0", "0">>
       /\ csv.rows[k]["Interchange Amount"] = <<"1", "5", "0">>
       /\ csv.rows[k]["Scheme Fee Bucket Amount"] = <<"3", "0">>
       /\ csv.rows[k]["Gateway Fee Amount"] = <<"1", "0">>
       /\ csv.rows[k]["VAT Amount"] = <<"0">>

\* C12: the worksheet with header row [Gateway UUID, Merchant, Amount,
\* Currency, Card Type, Payment Type, Processor Status, Card Country] and the
\* single data row [T1, Hong Kong Store, 100, HKD, VISA, SALE, APPROVED, HKG],
\* joined with the fee line of T1, ends with exactly one bucket, (HK, VISA),
\* with count 1, volume 100, IC 1.50, 1st plus 0.30, 2nd plus 1.20, gateway
\* fee 0.10, net acquirer markup 1.10, MDR 3.00, and nothing skipped.
C12_EndToEnd ==
  (book = ScenarioBook /\ ScenarioFeeRow /\ pc \in {"report", "done"}) =>
    /\ DOMAIN stats = {"HK"}
    /\ DOMAIN stats["HK"] = {T_VISA}
    /\ LET bucket == stats["HK"][T_VISA]
       IN  /\ bucket["count"] = 1
           /\ bucket["total_volume"] = 100
           /\ bucket["total_ic"] = 150
           /\ bucket["total_first_plus"] = 30
           /\ bucket["total_second_plus"] = 120
           /\ bucket["total_gateway_fee"] = 10
           /\ bucket["total_net_acquirer_markup"] = 110
           /\ bucket["total_mdr"] = 300
    /\ skipped_count = 0
    /\ skipped_reasons = EmptyDict

\* the run on that worksheet and that fee line has written its reports
C12_Witness ==
  /\ book = ScenarioBook
  /\ ScenarioFeeRow
  /\ pc = "done"
  /\ Len(transactions) = 1
  /\ DOMAIN transactions[1] = {ScenarioHeaders[i] : i \in DOMAIN ScenarioHeaders}
  /\ output # <<>>

-----------------------------------------------------------------------------
(* Properties of the statistics, checked under Spec *)

\* the outcomes of the transactions the loop of main has consumed
Outcomes == [i \in 1..(idx - 1) |-> Outcome(transactions[i], fee_data)]

\* the grouping key of a consumed transaction that was added
KeyOf(outs, i) == <<outs[i][2], CardTypeOf(transactions[i])>>

\* the keys of the buckets of the statistics
BucketKeys(st) == UNION {{<<region, card_type>> : card_type \in DOMAIN st[region]} : region \in DOMAIN st}

\* the bucket holds the count and the sums of the transactions ms, whose
\* breakdowns are in outs
HoldsSumsOf(bucket, outs, ms) ==
  /\ bucket["count"] = Cardinality(ms)
  /\ bucket["total_volume"]
       = SumOver([i \in ms |-> NumeralValue(transactions[i][H_Amount])], ms)
  /\ \A k \in PrimaryTotalKeys :
       bucket[k] = SumOver([i \in ms |-> outs[i][3][PrimaryOf(k)]], ms)
  /\ \A k \in DetailTotalKeys :
       bucket[k] = SumOver([i \in ms |-> outs[i][3].second_plus_details[DetailOf(k)]], ms)

\* there is one bucket per key of an added transaction, and it holds the
\* sums of the added transactions of its key
SumsHold(st, outs) ==
  LET added == {i \in DOMAIN outs : outs[i][1] = "add"}
  IN  /\ BucketKeys(st) = {KeyOf(outs, i) : i \in added}
      /\ \A key \in BucketKeys(st) :
           HoldsSumsOf(st[key[1]][key[2]], outs, {i \in added : KeyOf(outs, i) = key})

\* C13: during and after the loop of main, every bucket's count is the number
\* of the accepted transactions of its key consumed so far, its total_volume
\* the sum of their parsed amounts, and each running total (ic, first_plus,
\* second_plus, mdr, the twelve sub-fees, net_acquirer_markup) the sum of that
\* field of their breakdowns; a key has a bucket only once it was seen.
C13_BucketSums == pc \in {"process", "report", "done"} => SumsHold(stats, Outcomes)

\* after the loop a bucket holds two transactions with different fee records
C13_Witness ==
  /\ pc = "report"
  /\ \E key \in BucketKeys(stats) :
       /\ stats[key[1]][key[2]]["count"] = 2
       /\ stats[key[1]][key[2]]["total_mdr"] = 500
       /\ stats[key[1]][key[2]]["total_volume"] = 200

-----------------------------------------------------------------------------
(* The worksheet as written: rows, columns and cells, for the properties of *)
(* the reader, checked under Spec                                           *)

\* the rows below the header row
DataRowsOf(b) ==
  IF Len(b.sheet.rows) < 3 THEN <<>> ELSE SubSeq(b.sheet.rows, 3, Len(b.sheet.rows))

\* the header row as the set of the <<text, column>> of its cells
HeaderPairs(header_row, shared_strings) ==
  {<<parse_cell_value(header_row[i], shared_strings), CellCol(header_row[i])>> :
     i \in DOMAIN header_row}

\* the header row of the worksheet
HeaderOf(b) == HeaderPairs(b.sheet.rows[2], load_shared_strings(b.shared))

\* the columns of a header row that are headed name
ColumnsIn(header, name) == {p[2] : p \in {q \in header : q[1] = name}}

\* the columns of the worksheet whose header is name
ColumnsOf(b, name) == ColumnsIn(HeaderOf(b), name)

\* the header names of the worksheet
HeaderNames(b) == {p[1] : p \in HeaderOf(b)}

\* a row as the set of the <<column, position in the row>> of its cells
RowPairs(row) == {<<CellCol(row[i]), i>> : i \in DOMAIN row}

\* the cells a row has in the given columns, by their positions
CellsIn(row_pairs, columns) == {p[2] : p \in {q \in row_pairs : q[1] \in columns}}

\* the cells a row has in the columns headed name
CellsUnder(b, row, name) == CellsIn(RowPairs(row), ColumnsOf(b, name))

\* the value of the last of the given cells of a row, the empty string when
\* there is none
ValueOfCells(row, cells, shared_strings) ==
  IF cells = {} THEN <<>>
  ELSE parse_cell_value(row[CHOOSE i \in cells : \A j \in cells : j <= i], shared_strings)

\* the value of a row in the given columns
ValueIn(row, row_pairs, columns, shared_strings) ==
  ValueOfCells(row, CellsIn(row_pairs, columns), shared_strings)

\* the value of a row under a header: that of its cell in the column, the
\* empty string when the row has no cell there
ValueUnder(b, row, name) ==
  ValueIn(row, RowPairs(row), ColumnsOf(b, name), load_shared_strings(b.shared))

\* the row has a non-empty value in one of the columns
HasValueIn(row, row_pairs, columns, shared_strings) ==
  \E column \in columns : ValueIn(row, row_pairs, {column}, shared_strings) # <<>>

\* the columns headed Gateway UUID or Transaction ID
IdColumnsIn(header) == ColumnsIn(header, H_GatewayUUID) \cup ColumnsIn(header, H_TransactionID)

IdColumns(b) == IdColumnsIn(HeaderOf(b))

\* the row has a non-empty value under Gateway UUID or under Transaction ID
RowRetained(b, row) ==
  HasValueIn(row, RowPairs(row), IdColumns(b), load_shared_strings(b.shared))

RECURSIVE RetainedAmong(_, _, _)
\* the rows with a non-empty value in one of the columns, in their order
RetainedAmong(rows, columns, shared_strings) ==
  IF rows = <<>> THEN <<>>
  ELSE (IF HasValueIn(Head(rows), RowPairs(Head(rows)), columns, shared_strings)
          THEN <<Head(rows)>> ELSE <<>>)
         \o RetainedAmong(Tail(rows), columns, shared_strings)

\* the rows among rows that are retained, in worksheet order
RetainedRows(b, rows) == RetainedAmong(rows, IdColumns(b), load_shared_strings(b.shared))

\* the step adds one transaction to a bucket of the card type
AddsToCardType(card_type) ==
  \E region \in DOMAIN stats' :
    /\ card_type \in DOMAIN stats'[region]
    /\ stats'[region][card_type]["count"] = BucketOf(stats, region, card_type)["count"] + 1

\* the card type of a worksheet row: its upper-cased Card Type, "UNKNOWN"
\* when the row has no Card Type cell
CardTypeOfRow(b, row) ==
  IF CellsUnder(b, row, H_CardType) = {} THEN S_UNKNOWN
  ELSE Upper(ValueUnder(b, row, H_CardType))

\* C14: an accepted transaction is grouped under its upper-cased Card Type,
\* and under "UNKNOWN" when its row has no Card Type cell, be it a gap inside
\* the row or a cell beyond the last one of the row.
C14_CardTypeKey ==
  [][(LoopStep /\ Accepted(transactions[idx])) =>
       AddsToCardType(CardTypeOfRow(book, RetainedRows(book, DataRowsOf(book))[idx]))]_vars

\* C15: every accepted transaction has every header of the header row as a
\* key, with the value of its row's cell in that column, the empty string
\* when the row has no cell there, and has no other key.
C15_EveryHeaderIsKey ==
  pc \in {"process", "report", "done"} =>
    \A i \in DOMAIN transactions :
      Accepted(transactions[i]) =>
        /\ DOMAIN transactions[i] = HeaderNames(book)
        /\ \A name \in HeaderNames(book) :
             transactions[i][name]
               = ValueUnder(book, RetainedRows(book, DataRowsOf(book))[i], name)


\* the number of transactions in the buckets of the statistics
TotalCount(st) ==
  SumOver([key \in BucketKeys(st) |-> st[key[1]][key[2]]["count"]], BucketKeys(st))

\* the transaction holds the values of the row under every header, a header
\* it has no key for counting as the empty string, and has no other key
HoldsRow(transaction, row, row_pairs, header, shared_strings) ==
  /\ DOMAIN transaction \subseteq {p[1] : p \in header}
  /\ \A p \in header :
       Get(transaction, p[1], <<>>)
         = ValueIn(row, row_pairs, ColumnsIn(header, p[1]), shared_strings)

\* the transactions are those of the rows, one for one and in order
AreOfRows(txns, rows, header, shared_strings) ==
  /\ Len(txns) = Len(rows)
  /\ \A i \in DOMAIN rows : HoldsRow(txns[i], rows[i], RowPairs(rows[i]), header, shared_strings)

\* the transactions are those of the retained rows of a worksheet with the
\* given header row and data rows
AreRetainedOf(txns, rows, header, shared_strings) ==
  AreOfRows(txns, RetainedAmong(rows, IdColumnsIn(header), shared_strings), header,
            shared_strings)

\* C16: when the reader has returned, its transactions are those of the
\* data rows with a non-empty value under Gateway UUID or under Transaction
\* ID, in worksheet order; the other rows (one with a Gateway Reference only
\* included) are in no bucket and in no skip tally: at the end of the run
\* buckets and skips add up to the retained rows.
C16_RetainedRows ==
  /\ []((pc = "load" /\ Len(book.sheet.rows) >= 3) =>
          AreRetainedOf(transactions, DataRowsOf(book), HeaderOf(book),
                        load_shared_strings(book.shared)))
  /\ []((pc = "load" /\ Len(book.sheet.rows) < 3) => transactions = <<>>)
  /\ [](pc = "done" =>
          /\ TotalCount(stats) + skipped_count = Len(RetainedRows(book, DataRowsOf(book)))
          /\ SumOver(skipped_reasons, DOMAIN skipped_reasons) = skipped_count)

\* of a row with a Gateway Reference only and a row with a Transaction ID
\* only, the second was returned and added, the first is counted nowhere
C16_Witness ==
  /\ pc = "done"
  /\ Len(DataRowsOf(book)) = 2
  /\ ValueUnder(book, DataRowsOf(book)[1], H_GatewayReference) # <<>>
  /\ ~RowRetained(book, DataRowsOf(book)[1])
  /\ ValueUnder(book, DataRowsOf(book)[2], H_GatewayUUID) = <<>>
  /\ ValueUnder(book, DataRowsOf(book)[2], H_TransactionID) # <<>>
  /\ Len(transactions) = 1
  /\ TotalCount(stats) = 1
  /\ skipped_count = 0


\* the archive opens and both parts, where present, are well-formed XML
Readable(b) == b.archive = "ok" /\ b.shared.kind # "malformed" /\ b.sheet.kind = "xml"

\* C17: on a readable workbook whose worksheet has fewer than 3 rows the read
\* does not raise and returns no transaction: the run exits early only when
\* the fee file fails to load, never gets stuck, counts nothing into buckets
\* or skips, and ends with its reports written.
C17_FewerThanThreeRows ==
  (Readable(book) /\ Len(book.sheet.rows) < 3) =>
    /\ pc = "exit1" => csv.kind # "ok"
    /\ pc \notin {"done", "exit1"} => ENABLED Next
    /\ transactions = <<>>
    /\ stats = EmptyDict
    /\ skipped_count = 0
    /\ skipped_reasons = EmptyDict
    /\ pc = "done" => output = <<"console", "csv", "html">>

\* the run on a worksheet of a title row and a header row is over, with
\* its reports written
C17_Witness ==
  /\ Readable(book)
  /\ Len(book.sheet.rows) = 2
  /\ pc = "done"
  /\ stats = EmptyDict
  /\ skipped_count = 0
  /\ output # <<>>

-----------------------------------------------------------------------------
(* ExcelReader._parse_cell_value on its own: every cell and every shared-  *)
(* string part of the model                                                *)

\* the type attribute of a <c> element ("absent": it has none)
CellTypes == {"s", "n", "str", "b", "absent"}

\* the text of the <v> element of a cell (None: no <v>, or an empty one)
CellTexts ==
  {None, <<"0">>, <<"1">>, <<"2">>, <<"3">>, <<"-", "1">>, <<"+", "1">>, <<" ", "2", " ">>,
   <<"1", "2">>, <<"a", "b", "c">>}

\* xl/sharedStrings.xml: absent, or its <si> elements, each the texts of its
\* <t> elements (None for an empty <t>)
SharedParts ==
  {[kind |-> "absent", items |-> <<>>]}
  \cup {[kind |-> "xml", items |-> items] :
          items \in {<<>>,
                     <<<<T_HKD>>>>,
                     <<<<T_HKD>>, <<T_VISA, T_MC>>>>,
                     <<<<T_HKD>>, <<>>, <<T_MC>>>>,
                     <<<<None>>, <<T_VISA>>, <<<<>>, T_MC>>>>}}

InitCell ==
  /\ Idle
  /\ pc = "call"
  /\ \E t \in CellTypes, v \in CellTexts, part \in SharedParts :
       call = [op |-> "parse_cell_value", cell |-> Cell(0, "3", t, v), part |-> part]
  /\ ret = NoCall

\* int(val_elem.text) raises ValueError
CellRaises ==
  /\ pc = "call"
  /\ call.op = "parse_cell_value"
  /\ BadIndexCell(<<<<>>, <<>>, <<call.cell>>>>)
  /\ ret' = [raised |-> "ValueError"]
  /\ pc' = "return"
  /\ UNCHANGED <<book, csv, transactions, fee_data, idx, stats, skipped_count, skipped_reasons, output, call>>

\* _load_shared_strings, then _parse_cell_value returns
CellReturns ==
  /\ pc = "call"
  /\ call.op = "parse_cell_value"
  /\ ~BadIndexCell(<<<<>>, <<>>, <<call.cell>>>>)
  /\ ret' = [value |-> parse_cell_value(call.cell, load_shared_strings(call.part))]
  /\ pc' = "return"
  /\ UNCHANGED <<book, csv, transactions, fee_data, idx, stats, skipped_count, skipped_reasons, output, call>>

NextCell == CellReturns \/ CellRaises

SpecCell == InitCell /\ [][NextCell]_vars

-----------------------------------------------------------------------------
(* Properties of the cell values, checked under SpecCell *)

\* the shared-string table of a part: one entry per <si>, the text of its
\* first <t>, '' when it has none or an empty one; empty without a part
TableOf(part) ==
  IF part.kind = "absent" THEN <<>>
  ELSE [i \in DOMAIN part.items |->
          IF part.items[i] = <<>> \/ part.items[i][1] \in {None, <<>>} THEN <<>>
          ELSE part.items[i][1]]

\* C18: a cell without <v> yields ''; a cell of type s whose text is an
\* integer yields the table entry at that index, '' when the index is
\* negative or not below the length of the table, so always '' when the
\* archive has no shared-string part (which is no failure); a cell of any
\* other type yields the text of its <v>.
C18_CellValue ==
  (pc = "return" /\ call.op = "parse_cell_value") =>
    LET cell  == call.cell
        table == TableOf(call.part)
    IN  IF cell.v = None THEN ret = [value |-> <<>>]
        ELSE IF cell.t # "s" THEN ret = [value |-> cell.v]
        ELSE IsNumeral(cell.v) =>
               LET index == NumeralValue(cell.v)
               IN  IF 0 <= index /\ index < Len(table)
                     THEN ret = [value |-> table[index + 1]]
                     ELSE ret = [value |-> <<>>]

\* a cell of type s with index -1 was resolved against a table of three
\* entries, to the empty string
C18_Witness ==
  /\ pc = "return"
  /\ call.op = "parse_cell_value"
  /\ call.cell.t = "s"
  /\ call.cell.v = <<"-", "1">>
  /\ Len(TableOf(call.part)) = 3
  /\ TableOf(call.part)[3] # <<>>
  /\ ret = [value |-> <<>>]


\* the read of the workbook fails: the archive does not open, a part is
\* malformed, the worksheet part is missing, or a parsed cell has a
\* shared-string index that is no integer
ReadFails(b) ==
  \/ b.archive # "ok"
  \/ b.shared.kind = "malformed"
  \/ b.sheet.kind \in {"absent", "malformed"}
  \/ /\ Len(b.sheet.rows) >= 3
     /\ \E k \in 2..Len(b.sheet.rows) : \E c \in DOMAIN b.sheet.rows[k] :
          LET cell == b.sheet.rows[k][c]
          IN  cell.t = "s" /\ cell.v # None /\ ~IsNumeral(cell.v)

\* nothing was processed and nothing was reported
NothingDone ==
  /\ idx = 1
  /\ stats = EmptyDict
  /\ skipped_count = 0
  /\ skipped_reasons = EmptyDict
  /\ output = <<>>

\* C19: when the read of the workbook fails or the fee file cannot be
\* loaded, the step that reads or loads goes to exit status 1, and the run is
\* never anywhere else than before that step or at the exit: no transaction
\* is processed, no report is written, and after a failed read no
\* transaction of the worksheet is held, not even those of the rows before
\* the failure.
C19_AbortBeforeReports ==
  /\ []((ReadFails(book) \/ csv.kind # "ok") =>
          /\ pc \in {"read", "load", "exit1"}
          /\ ReadFails(book) => pc \in {"read", "exit1"} /\ transactions = <<>>
          /\ NothingDone)
  /\ [][(pc = "read" /\ ReadFails(book)) => pc' = "exit1"]_vars
  /\ [][(pc = "load" /\ csv.kind # "ok") => pc' = "exit1"]_vars

\* two transactions were read, the fee file failed to load, and the run
\* has exited with status 1
C19_Witness ==
  /\ ~ReadFails(book)
  /\ csv.kind # "ok"
  /\ pc = "exit1"
  /\ Len(transactions) = 2
  /\ idx = 1
  /\ output = <<>>


\* the step adds one transaction to one bucket, leaves the counts of the
\* other buckets alone and tallies no skip
AddsOne ==
  /\ TalliesNothing
  /\ \E key \in BucketKeys(stats') :
       /\ stats'[key[1]][key[2]]["count"] = BucketOf(stats, key[1], key[2])["count"] + 1
       /\ \A other \in BucketKeys(stats') \ {key} :
            /\ other \in BucketKeys(stats)
            /\ stats'[other[1]][other[2]]["count"] = stats[other[1]][other[2]]["count"]

\* the step tallies one skip, under one reason, and leaves the statistics alone
SkipsOne == \E reason \in DOMAIN skipped_reasons' : TalliesSkip(reason)

\* C20: the loop of main takes the transactions one by one, each step either
\* adding the transaction to exactly one bucket or tallying exactly one skip,
\* and going on to the next transaction after a skip as after an add; the
\* bucket counts and skipped_count add up to the transactions consumed, and
\* after the loop to all the transactions the reader returned.
C20_HandledOnce ==
  /\ [](pc = "process" => TotalCount(stats) + skipped_count = idx - 1)
  /\ [](pc \in {"report", "done"} =>
          /\ idx = Len(transactions) + 1
          /\ TotalCount(stats) + skipped_count = Len(transactions))
  /\ [][(pc = "process" /\ idx <= Len(transactions)) =>
          /\ pc' = "process"
          /\ idx' = idx + 1
          /\ AddsOne \/ SkipsOne]_vars

\* the first of two transactions was skipped, the loop went on, and the
\* second was added
C20_Witness ==
  /\ pc = "done"
  /\ Len(transactions) = 2
  /\ Outcome(transactions[1], fee_data)[1] = "skip"
  /\ Outcome(transactions[2], fee_data)[1] = "add"
  /\ TotalCount(stats) = 1
  /\ skipped_count = 1


-----------------------------------------------------------------------------
(* Properties of the averages *)

AvgKeys == {"avg_ic_pct", "avg_first_plus_pct", "avg_second_plus_pct", "avg_mdr_pct"}

\* the running total an average is taken of
AvgTotal(k) ==
  CASE k = "avg_ic_pct" -> "total_ic"
    [] k = "avg_first_plus_pct" -> "total_first_plus"
    [] k = "avg_second_plus_pct" -> "total_second_plus"
    [] k = "avg_mdr_pct" -> "total_mdr"

\* two fractions <<numerator, denominator>> are the same number
SameFraction(a, b) == a[1] * b[2] = b[1] * a[2]

\* C21: once calculate_percentages has run, each of the four averages of every
\* bucket is abs(total / total_volume * 100) when the total volume of the
\* bucket is not 0, positive or negative, and 0 when it is 0; while
\* transactions are still accumulated no bucket has an average
C21_AverageOfNonZeroVolume ==
  \A key \in BucketKeys(stats) :
    LET bucket == stats[key[1]][key[2]]
        volume == bucket["total_volume"]
    IN  IF pc \in {"report", "done"}
          THEN \A k \in AvgKeys :
                 /\ k \in DOMAIN bucket
                 /\ SameFraction(bucket[k],
                                 IF volume # 0 THEN Percentage(bucket[AvgTotal(k)], volume)
                                               ELSE <<0, 1>>)
          ELSE \A k \in AvgKeys : k \notin DOMAIN bucket


-----------------------------------------------------------------------------
(* Properties of the order of accumulation *)

\* the orders in which the first n transactions can be taken
Orders(n) == {order \in [1..n -> 1..n] : \A i, j \in 1..n : order[i] = order[j] => i = j}

\* the statistics after the accepted ones of the handled transactions are
\* accumulated in the given order, starting from an empty aggregator
RECURSIVE AccumulatedIn(_, _, _)
AccumulatedIn(order, n, outs) ==
  IF n = 0 THEN EmptyDict
  ELSE LET st == AccumulatedIn(order, n - 1, outs)
           i  == order[n]
       IN  IF outs[i][1] = "add"
             THEN add_transaction(st, transactions[i], outs[i][3], outs[i][2])
             ELSE st

\* the fields of a bucket that are sums: count, total_volume, running totals
SumKeys == {"count", "total_volume"} \cup PrimaryTotalKeys \cup DetailTotalKeys

SumsOf(st) ==
  [key \in BucketKeys(st) |-> [k \in SumKeys |-> st[key[1]][key[2]][k]]]

\* every order of the handled transactions gives the buckets and the sums of st
SameInEveryOrder(st, outs) ==
  \A order \in Orders(Len(outs)) : SumsOf(AccumulatedIn(order, Len(outs), outs)) = SumsOf(st)

\* C22: the set of buckets and the count, total volume and running totals of
\* every bucket are those any other order of the same accepted transactions
\* gives: at every point from the loop on, accumulating the handled
\* transactions in any order yields the buckets and sums of the statistics
C22_OrderIndependent ==
  [](pc \in {"process", "report", "done"} => SameInEveryOrder(stats, Outcomes))

\* two transactions with different references share a bucket at the end, so
\* that the two orders give different lists
C22_Witness ==
  /\ pc = "done"
  /\ \E key \in BucketKeys(stats) :
       LET refs == stats[key[1]][key[2]]["transactions"]
       IN  Len(refs) = 2 /\ refs[1] # refs[2]


\* the Gateway UUID and the Amount each of the rows has in the worksheet
RowRefs(rows, header, shared_strings) ==
  [i \in DOMAIN rows |->
     [id     |-> ValueIn(rows[i], RowPairs(rows[i]), ColumnsIn(header, H_GatewayUUID),
                         shared_strings),
      amount |-> ValueIn(rows[i], RowPairs(rows[i]), ColumnsIn(header, H_Amount),
                         shared_strings)]]

\* the references of the first n retained rows that were added to the bucket
\* of the key, in the order of the rows
RECURSIVE RefsInRowOrder(_, _, _, _)
RefsInRowOrder(key, n, outs, row_refs) ==
  IF n = 0 THEN <<>>
  ELSE LET before == RefsInRowOrder(key, n - 1, outs, row_refs)
       IN  IF outs[n][1] = "add" /\ KeyOf(outs, n) = key
             THEN Append(before, [id     |-> row_refs[n].id,
                                  amount |-> NumeralValue(row_refs[n].amount),
                                  icpp   |-> outs[n][3]])
             ELSE before

\* every bucket lists the references of its rows in the order of the rows
ListsInRowOrder(st, outs, row_refs) ==
  \A key \in BucketKeys(st) :
    st[key[1]][key[2]]["transactions"] = RefsInRowOrder(key, Len(outs), outs, row_refs)

\* C23: the references list of every bucket holds the accepted transactions
\* of the bucket in the order of their rows in the worksheet: at every point
\* from the loop on it is the list, by increasing row, of the Gateway UUID,
\* amount and breakdown of the retained rows handled so far that were added
\* to the bucket
C23_ListInRowOrder ==
  (pc \in {"process", "report", "done"} /\ Len(book.sheet.rows) >= 3) =>
    ListsInRowOrder(stats, Outcomes,
                    RowRefs(RetainedRows(book, DataRowsOf(book)), HeaderOf(book),
                            load_shared_strings(book.shared)))

\* at the end a bucket lists two rows with different amounts, the first row
\* of the worksheet first
C23_Witness ==
  /\ pc = "done"
  /\ Len(DataRowsOf(book)) = 2
  /\ \E key \in BucketKeys(stats) :
       LET refs == stats[key[1]][key[2]]["transactions"]
       IN  /\ Len(refs) = 2
           /\ refs[1].amount # refs[2].amount
           /\ refs[1].amount = NumeralValue(ValueUnder(book, DataRowsOf(book)[1], H_Amount))


-----------------------------------------------------------------------------
(* StatisticsAggregator on its own: any sequence of calls of add_transaction, *)
(* skip_transaction and calculate_percentages on a new aggregator            *)

\* the number of calls of a sequence
MaxCalls == 3

\* a transaction with the four fields add_transaction reads
AggTransaction(id, card_type, currency, amount) ==
  DictSet(DictSet(DictSet(DictSet(EmptyDict, H_GatewayUUID, id), H_CardType, card_type),
                  H_Currency, currency),
          H_Amount, amount)

\* the transactions of the calls: two of one card type in two currencies
\* with opposite amounts, one of another card type, and one that has an
\* Amount only
AggTransactions ==
  {AggTransaction(T_T1, T_VISA, T_HKD, <<"5">>),
   AggTransaction(T_T2, T_visa, T_MYR, <<"-", "5">>),
   AggTransaction(T_T3, T_MC, T_HKD, <<"7">>),
   DictSet(EmptyDict, H_Amount, <<"5">>)}

\* the fee records of the calls: one with a gateway fee within the 2nd plus,
\* one whose VAT exceeds the 2nd plus
AggFees ==
  {MakeFees(300, 150, 30, [k \in DetailKeys |-> IF k = "gateway_fee" THEN 10 ELSE 0]),
   MakeFees(200, 50, 20, [k \in DetailKeys |-> IF k = "vat" THEN 500 ELSE 0])}

AggRegions == {"HK", "MY"}

AggReasons == {R_Refund, R_Missing}

\* StatisticsAggregator.__init__
InitAgg ==
  /\ book = Workbook(<<>>)
  /\ csv = FeeFile(<<>>)
  /\ pc = "aggregate"
  /\ transactions = <<>>
  /\ fee_data = EmptyDict
  /\ idx = 1
  /\ stats = EmptyDict
  /\ skipped_count = 0
  /\ skipped_reasons = EmptyDict
  /\ output = <<>>
  /\ call = NoCall
  /\ ret = NoCall

\* a call of add_transaction with the breakdown calculate_icpp gives for the
\* transaction, a fee record and the region
AggAdd ==
  /\ pc = "aggregate"
  /\ idx <= MaxCalls
  /\ \E transaction \in AggTransactions, fees \in AggFees, region \in AggRegions :
       LET icpp == calculate_icpp(transaction, fees, region)
       IN  /\ stats' = add_transaction(stats, transaction, icpp, region)
           /\ call' = [op |-> "add_transaction", transaction |-> transaction,
                       icpp |-> icpp, region |-> region]
  /\ idx' = idx + 1
  /\ UNCHANGED <<book, csv, pc, transactions, fee_data, skipped_count, skipped_reasons, output, ret>>

\* a call of skip_transaction
AggSkip ==
  /\ pc = "aggregate"
  /\ idx <= MaxCalls
  /\ \E reason \in AggReasons :
       /\ skipped_count' = skipped_count + 1
       /\ skipped_reasons' = skip_transaction(skipped_reasons, reason)
       /\ call' = [op |-> "skip_transaction", reason |-> reason]
  /\ idx' = idx + 1
  /\ UNCHANGED <<book, csv, pc, transactions, fee_data, stats, output, ret>>

\* a call of calculate_percentages
AggPercentages ==
  /\ pc = "aggregate"
  /\ idx <= MaxCalls
  /\ stats' = calculate_percentages(stats)
  /\ call' = [op |-> "calculate_percentages"]
  /\ idx' = idx + 1
  /\ UNCHANGED <<book, csv, pc, transactions, fee_data, skipped_count, skipped_reasons, output, ret>>

NextAgg ==
  \/ AggAdd
  \/ AggSkip
  \/ AggPercentages

SpecAgg == InitAgg /\ [][NextAgg]_vars

-----------------------------------------------------------------------------
(* Properties of the aggregator *)

\* the step is a call of the operation
Calls(op) == idx' = idx + 1 /\ call'.op = op

\* the amount add_transaction reads from a transaction
AmountOf(transaction) == NumeralValue(Get(transaction, H_Amount, <<"0">>))

\* the bucket of the key takes the currency, counts one more and adds the
\* amount and the primary amounts of the breakdown to what it held
TakesInto(key, transaction, icpp) ==
  LET before == BucketOf(stats, key[1], key[2])
      after  == stats'[key[1]][key[2]]
  IN  /\ after["currency"] = Get(transaction, H_Currency, <<>>)
      /\ after["count"] = before["count"] + 1
      /\ after["total_volume"] = before["total_volume"] + AmountOf(transaction)
      /\ after["total_ic"] = before["total_ic"] + icpp.ic
      /\ after["total_first_plus"] = before["total_first_plus"] + icpp.first_plus
      /\ after["total_second_plus"] = before["total_second_plus"] + icpp.second_plus
      /\ after["total_mdr"] = before["total_mdr"] + icpp.mdr

\* the buckets other than that of the key keep their currency
OthersKeepCurrency(keys) ==
  \A key \in BucketKeys(stats) \ keys :
    /\ key \in BucketKeys(stats')
    /\ stats'[key[1]][key[2]]["currency"] = stats[key[1]][key[2]]["currency"]

\* C24: the currency of a bucket is the Currency of the transaction last
\* accumulated into it: a call of add_transaction stores the Currency of its
\* transaction in the bucket, whatever currency the bucket held, tallies no
\* skip and adds the amounts to the totals of that same bucket, and no other
\* step changes the currency of a bucket
C24_CurrencyLastWins ==
  /\ [][Calls("add_transaction") =>
          LET key == <<call'.region, CardTypeOf(call'.transaction)>>
          IN  /\ key \in BucketKeys(stats')
              /\ TakesInto(key, call'.transaction, call'.icpp)
              /\ TalliesNothing
              /\ OthersKeepCurrency({key})]_vars
  /\ [][~Calls("add_transaction") => OthersKeepCurrency({})]_vars

\* a bucket that held the HKD transaction T1 has just taken the MYR
\* transaction T2: it is MYR now, and its volume is the sum of both
C24_Witness ==
  /\ call.op = "add_transaction"
  /\ Get(call.transaction, H_Currency, <<>>) = T_MYR
  /\ LET bucket == stats[call.region][CardTypeOf(call.transaction)]
     IN  /\ bucket["count"] = 2
         /\ bucket["transactions"][1].id = T_T1
         /\ bucket["transactions"][2].id = T_T2
         /\ bucket["currency"] = T_MYR
         /\ bucket["total_volume"] = 0


-----------------------------------------------------------------------------
(* ExcelReader._col_letter_to_num on its own: every column of at most *)
(* MaxLetters letters, in either case                                 *)

MaxLetters == 2

\* the characters str.isalpha leaves of a cell reference
Letters == {UpperLetters[i] : i \in DOMAIN UpperLetters} \cup {LowerLetters[i] : i \in DOMAIN LowerLetters}

\* the column letters of the calls
ColumnLetters == UNION {[1..n -> Letters] : n \in 1..MaxLetters}

InitCol ==
  /\ Idle
  /\ pc = "call"
  /\ \E col_letter \in ColumnLetters : call = [op |-> "col_letter_to_num", col_letter |-> col_letter]
  /\ ret = NoCall

CallCol ==
  /\ pc = "call"
  /\ call.op = "col_letter_to_num"
  /\ ret' = col_letter_to_num(call.col_letter)
  /\ pc' = "return"
  /\ UNCHANGED <<book, csv, transactions, fee_data, idx, stats, skipped_count, skipped_reasons, output, call>>

NextCol == CallCol

SpecCol == InitCol /\ [][NextCol]_vars

-----------------------------------------------------------------------------
(* Properties of the column codec *)

RECURSIVE PowerOf26(_)
PowerOf26(n) == IF n = 0 THEN 1 ELSE 26 * PowerOf26(n - 1)

\* the rank 1..26 of a letter in the alphabet, whatever its case
RankOf(c) == CHOOSE i \in 1..26 : UpperLetters[i] = c \/ LowerLetters[i] = c

\* the string read as a numeral in base 26 with A..Z = 1..26, the most
\* significant letter first
Base26(letters) ==
  SumOver([i \in DOMAIN letters |-> RankOf(letters[i]) * PowerOf26(Len(letters) - i)],
          DOMAIN letters)

\* the number of columns of at most n letters
RECURSIVE ColumnCount(_)
ColumnCount(n) == IF n = 0 THEN 0 ELSE PowerOf26(n) + ColumnCount(n - 1)

\* the inverse mapping: the upper-case letters of the column of a 0-based
\* index, the last letter being that of the remainder
RECURSIVE IndexToLetters(_)
IndexToLetters(index) ==
  (IF (index \div 26) = 0 THEN <<>> ELSE IndexToLetters((index \div 26) - 1))
    \o <<UpperLetters[(index % 26) + 1]>>

\* C25: the column codec returns the 0-based index of a column, its letters
\* read in base 26 with A..Z = 1..26, most significant first: A is 0, Z 25,
\* AA 26, AZ 51, BA 52; the case of the letters makes no difference; the
\* columns of one and two letters have the indices 0..701, and the inverse
\* mapping takes the index back to the letters, so that no two columns have
\* the same index
C25_ColumnCodec ==
  pc = "return" =>
    /\ ret = Base26(call.col_letter) - 1
    /\ ret = col_letter_to_num(Upper(call.col_letter))
    /\ ret \in 0..(ColumnCount(Len(call.col_letter)) - 1)
    /\ (Len(call.col_letter) <= 2 => ret \in 0..701)
    /\ IndexToLetters(ret) = Upper(call.col_letter)
    /\ col_letter_to_num(IndexToLetters(ret)) = ret
    /\ (Upper(call.col_letter) = <<"A">> => ret = 0)
    /\ (Upper(call.col_letter) = <<"Z">> => ret = 25)
    /\ (Upper(call.col_letter) = <<"A", "A">> => ret = 26)
    /\ (Upper(call.col_letter) = <<"A", "Z">> => ret = 51)
    /\ (Upper(call.col_letter) = <<"B", "A">> => ret = 52)

\* the call for the column written "zZ" has returned the last index of the
\* two-letter columns
C25_Witness ==
  /\ pc = "return"
  /\ call.col_letter = <<"z", "Z">>
  /\ ret = 701


-----------------------------------------------------------------------------
(* Properties of the buckets of a run *)

\* every bucket holds at least one transaction and counts those it lists,
\* and every region has a bucket
BucketsCounted(st) ==
  \A region \in DOMAIN st :
    /\ DOMAIN st[region] # {}
    /\ \A card_type \in DOMAIN st[region] :
         /\ st[region][card_type]["count"] >= 1
         /\ st[region][card_type]["count"] = Len(st[region][card_type]["transactions"])

\* the step keeps every bucket, and a bucket it creates is that of the
\* accepted transaction the loop accumulates in the step
CreatesByAccumulating ==
  /\ BucketKeys(stats) \subseteq BucketKeys(stats')
  /\ BucketKeys(stats') # BucketKeys(stats) =>
       /\ LoopStep
       /\ Accepted(transactions[idx])
       /\ Outcome(transactions[idx], fee_data)[1] = "add"
       /\ BucketKeys(stats') \ BucketKeys(stats)
            = {<<Outcome(transactions[idx], fee_data)[2], CardTypeOf(transactions[idx])>>}

\* C26: in every state of the run every bucket has a count of at least 1
\* that is the length of its references list, and every region of the
\* statistics has a bucket; no step removes a bucket, and a bucket appears
\* only in the step that accumulates an accepted transaction into it
C26_BucketsNeverEmpty ==
  /\ [](BucketsCounted(stats))
  /\ [][CreatesByAccumulating]_vars

\* the loop has accumulated two transactions into buckets of two regions
C26_Witness ==
  /\ pc = "process"
  /\ idx = 3
  /\ Cardinality(DOMAIN stats) = 2
  /\ \A key \in BucketKeys(stats) : stats[key[1]][key[2]]["count"] = 1


\* C27: after any sequence of calls of the aggregator, skipped_count is the
\* sum of the tallies of skipped_reasons, and every reason that has a tally
\* has one of at least 1
C27_SkipTally ==
  /\ skipped_count = SumOver(skipped_reasons, DOMAIN skipped_reasons)
  /\ \A reason \in DOMAIN skipped_reasons : skipped_reasons[reason] >= 1

\* one reason was tallied twice, with a transaction added among the calls
C27_Witness ==
  /\ skipped_count = 2
  /\ DOMAIN skipped_reasons = {R_Missing}
  /\ skipped_reasons[R_Missing] = 2
  /\ stats # EmptyDict


\* the sum of the twelve sub-fee totals of a bucket
TwelveSubFeeTotals(bucket) ==
  bucket["total_gateway_fee"] + bucket["total_authorization_fee"] + bucket["total_clearing_fee"]
    + bucket["total_cross_border_fee"] + bucket["total_cross_currency_fee"]
    + bucket["total_preauth_fee"] + bucket["total_three_ds_fee"]
    + bucket["total_non_three_ds_fee"]
    + bucket["total_vat"] + bucket["total_wht"] + bucket["total_grt"] + bucket["total_st"]

\* C28: the totals of every bucket fed with breakdowns of calculate_icpp obey
\* the identities of a single breakdown: total_second_plus = total_mdr -
\* total_ic - total_first_plus, and total_net_acquirer_markup =
\* total_second_plus - (the sum of the twelve sub-fee totals); a bucket of
\* region MY has a total_first_plus of 0
C28_WaterfallOfTotals ==
  \A key \in BucketKeys(stats) :
    LET bucket == stats[key[1]][key[2]]
    IN  /\ bucket["total_second_plus"]
             = bucket["total_mdr"] - bucket["total_ic"] - bucket["total_first_plus"]
        /\ bucket["total_net_acquirer_markup"]
             = bucket["total_second_plus"] - TwelveSubFeeTotals(bucket)
        /\ key[1] = "MY" => bucket["total_first_plus"] = 0

\* a bucket of MY holds the two fee records of the calls: its 2nd plus is
\* positive, its markup negative
C28_Witness ==
  \E key \in BucketKeys(stats) :
    LET bucket == stats[key[1]][key[2]]
    IN  /\ key[1] = "MY"
        /\ bucket["count"] = 2
        /\ bucket["total_mdr"] = 500
        /\ bucket["total_second_plus"] = 300
        /\ bucket["total_net_acquirer_markup"] = -210


-----------------------------------------------------------------------------
(* Properties of the lookup key *)

\* the Transaction ID of a transaction when it has a non-empty one, its
\* Gateway UUID otherwise
TransactionIdOrUuid(t) ==
  IF Get(t, H_TransactionID, <<>>) # <<>> THEN t[H_TransactionID]
  ELSE Get(t, H_GatewayUUID, <<>>)

\* C29: the key main computes for a transaction the reader returned is not
\* empty and is the Transaction ID of the transaction or, when that is empty,
\* its Gateway UUID, never its Gateway Reference as such; a transaction that
\* passes the filter is looked up by that key alone: when the key is no key
\* of the fee data the step tallies "Missing fee data", also when the Gateway
\* UUID or the Gateway Reference of the transaction is one
C29_OneLookupKey ==
  /\ [](\A i \in DOMAIN transactions :
          /\ TransactionIdOrUuid(transactions[i]) # <<>>
          /\ TxnId(transactions[i]) = TransactionIdOrUuid(transactions[i]))
  /\ [][(LoopStep /\ PassesFilter(transactions[idx])) =>
          /\ LooksUpBy(transactions[idx], TransactionIdOrUuid(transactions[idx]))
          /\ TransactionIdOrUuid(transactions[idx]) \notin DOMAIN fee_data =>
               (TalliesSkip(R_Missing) /\ stats' = stats)]_vars

\* the transaction has a Gateway UUID that is no key of the fee data and a
\* Gateway Reference that is one: it was skipped for missing fee data
C29_Witness ==
  /\ pc = "process"
  /\ idx = 2
  /\ LET t == transactions[1]
     IN  /\ PassesFilter(t)
         /\ Get(t, H_TransactionID, <<>>) = <<>>
         /\ Get(t, H_GatewayUUID, <<>>) \notin DOMAIN fee_data
         /\ Get(t, H_GatewayReference, <<>>) \in DOMAIN fee_data
  /\ skipped_reasons = DictSet(EmptyDict, R_Missing, 1)
  /\ stats = EmptyDict


\* the step leaves the buckets other than those of the keys as they are and
\* has no bucket besides them and those of the keys
KeepsOtherBuckets(keys) ==
  /\ BucketKeys(stats') = BucketKeys(stats) \cup keys
  /\ \A key \in BucketKeys(stats) \ keys : stats'[key[1]][key[2]] = stats[key[1]][key[2]]

\* the step writes the four averages of every bucket and no other field
WritesAveragesOnly ==
  /\ BucketKeys(stats') = BucketKeys(stats)
  /\ \A key \in BucketKeys(stats) :
       LET before == stats[key[1]][key[2]]
           after  == stats'[key[1]][key[2]]
       IN  /\ DOMAIN after = DOMAIN before \cup AvgKeys
           /\ \A k \in DOMAIN before \ AvgKeys : after[k] = before[k]

\* C30: a call of add_transaction changes the bucket of (region, upper-cased
\* card type) of its transaction only: every other bucket, skipped_count and
\* skipped_reasons stay as they are; a call of skip_transaction changes
\* skipped_count and the tally of its reason only: every bucket and every
\* other tally stay; a call of calculate_percentages writes the four
\* averages only: count, total_volume, the running totals, the currency and
\* the references list of every bucket stay, and so do the skips
C30_Frames ==
  /\ [][Calls("add_transaction") =>
          /\ KeepsOtherBuckets({<<call'.region, CardTypeOf(call'.transaction)>>})
          /\ TalliesNothing]_vars
  /\ [][Calls("skip_transaction") =>
          /\ TalliesSkip(call'.reason)
          /\ KeepsOtherBuckets({})]_vars
  /\ [][Calls("calculate_percentages") =>
          /\ WritesAveragesOnly
          /\ TalliesNothing]_vars

\* two transactions were added to two buckets of one region, the second
\* beside the bucket of the first, and the averages were then written over
\* both buckets
C30_Witness ==
  /\ call.op = "calculate_percentages"
  /\ idx = 4
  /\ \E region \in DOMAIN stats :
       /\ Cardinality(DOMAIN stats[region]) = 2
       /\ \A card_type \in DOMAIN stats[region] :
            "avg_mdr_pct" \in DOMAIN stats[region][card_type]

=============================================================================
